---- MODULE Spec2Model ----
(***************************************************************************)
(* libwarp: the host library (process state, program cache, entry points   *)
(* serialised by the global lock) and the scatter depth pass kernel.       *)
(***************************************************************************)
EXTENDS Integers, Sequences, FiniteSets, TLC

\* A pointer (unique_ptr, shared_ptr, raw pointer, const char*) is the set of
\* the objects it points to: empty for nullptr, else a singleton.
NULL == {}
Ptr(x) == {x}
Deref(p) == CHOOSE x \in p : TRUE

(***************************************************************************)
(* Bounds of the model                                                     *)
(***************************************************************************)
\* number of concurrent callers of the library
NumThreads == 2
\* the environment lets at most this many calls meet a failure
MaxFaults == 1

Threads == 1..NumThreads

(***************************************************************************)
(* LIBWARP_ERROR_CODE (libwarp.h)                                          *)
(***************************************************************************)
LIBWARP_SUCCESS == 0
LIBWARP_NO_CONTEXT == 2
LIBWARP_NO_DEVICE == 3
LIBWARP_NO_QUEUE == 4
LIBWARP_COMPILATION_FAILURE == 5
LIBWARP_NO_KERNEL == 6
LIBWARP_INVALID_SCREEN_DIM == 7
LIBWARP_IMAGE_WRAP_FAILURE == 8
LIBWARP_IMAGE_ACQUIRE_FAILURE == 9
LIBWARP_IMAGE_RELEASE_FAILURE == 10
LIBWARP_DEPTH_BUFFER_FAILURE == 11

\* LIBWARP_DEPTH_TYPE
LIBWARP_DEPTH_NORMALIZED == 0
LIBWARP_DEPTH_Z_DIV_W == 1
LIBWARP_DEPTH_LINEAR == 2

(***************************************************************************)
(* WARP_KERNEL (libwarp_internal.hpp)                                      *)
(***************************************************************************)
KERNEL_SCATTER_DEPTH_PASS == 0
KERNEL_SCATTER_COLOR_DEPTH_TEST == 1
KERNEL_SCATTER_CLEAR == 2
KERNEL_SCATTER_FIXUP == 3
KERNEL_GATHER_FORWARD_ONLY == 4
KERNEL_GATHER_BIDIRECTIONAL == 5
KERNEL_DEBUG_DEPTH == 6
KERNEL_DEBUG_MOTION_2D == 7
KERNEL_DEBUG_MOTION_3D == 8
KERNEL_DEBUG_MOTION_DEPTH == 9
MAX_WARP_KERNEL == 10

warp_kernel_count == MAX_WARP_KERNEL

\* static const char* kernel_names[warp_kernel_count()] { six names }: the
\* elements without an initialiser are value-initialised, i.e. null pointers.
kernel_names ==
    [i \in 0..(warp_kernel_count - 1) |->
        CASE i = 0 -> Ptr("warp_scatter_depth")
          [] i = 1 -> Ptr("warp_scatter_color")
          [] i = 2 -> Ptr("img_clear")
          [] i = 3 -> Ptr("single_px_fixup")
          [] i = 4 -> Ptr("warp_gather_forward")
          [] i = 5 -> Ptr("warp_gather")
          [] OTHER -> NULL]

(***************************************************************************)
(* libwarp_camera_setup.  The float members are held as integers in units  *)
(* of 10^-7; pad stands for the three bytes that follow the bool member in *)
(* the struct's object representation.                                     *)
(***************************************************************************)
BaseSetup ==
    [screen_width |-> 2, screen_height |-> 2,
     field_of_view |-> 720000000, near_plane |-> 5000000,
     far_plane |-> 1000000000, depth_type |-> LIBWARP_DEPTH_NORMALIZED,
     is_screen_origin_top_left |-> TRUE, pad |-> 0]

\* the fields of the struct, without the padding bytes
SetupFields ==
    {"screen_width", "screen_height", "field_of_view", "near_plane",
     "far_plane", "depth_type", "is_screen_origin_top_left"}

\* BaseSetup with one member changed
VariantOf(f) ==
    CASE f = "screen_width" -> [BaseSetup EXCEPT !.screen_width = 3]
      [] f = "screen_height" -> [BaseSetup EXCEPT !.screen_height = 1]
      [] f = "field_of_view" -> [BaseSetup EXCEPT !.field_of_view = 900000000]
      [] f = "near_plane" -> [BaseSetup EXCEPT !.near_plane = 10000000]
      [] f = "far_plane" -> [BaseSetup EXCEPT !.far_plane = 2000000000]
      [] f = "depth_type" -> [BaseSetup EXCEPT !.depth_type = LIBWARP_DEPTH_LINEAR]
      [] f = "is_screen_origin_top_left" ->
             [BaseSetup EXCEPT !.is_screen_origin_top_left = FALSE]
      [] f = "pad" -> [BaseSetup EXCEPT !.pad = 1]

ZeroWidthSetup == [BaseSetup EXCEPT !.screen_width = 0]
ZeroHeightSetup == [BaseSetup EXCEPT !.screen_height = 0]

\* what a second camera setup of the caller may differ in from the first
Variations == SetupFields \cup {"pad"}

\* the object representation memcmp() walks: every member and the padding
ObjectBytes(cs) ==
    <<cs.screen_width, cs.screen_height, cs.field_of_view, cs.near_plane,
      cs.far_plane, cs.depth_type, cs.is_screen_origin_top_left, cs.pad>>

\* memcmp(&a, &b, sizeof(libwarp_camera_setup)) == 0
memcmp_is_zero(a, b) == ObjectBytes(a) = ObjectBytes(b)

\* member-wise equality of two camera setups
FieldsEqual(a, b) == \A f \in SetupFields : a[f] = b[f]

(***************************************************************************)
(* libwarp_state_struct                                                    *)
(***************************************************************************)
\* the image members of libwarp_state_struct, by member path
ScatterSlots == {"scatter.color", "scatter.depth", "scatter.motion", "scatter.output"}
GatherForwardSlots ==
    {"gather_forward.color", "gather_forward.motion", "gather_forward.output"}
GatherSlots ==
    {"gather.color[0]", "gather.color[1]", "gather.depth[0]", "gather.depth[1]",
     "gather.motion[0]", "gather.motion[1]", "gather.motion[2]", "gather.motion[3]",
     "gather.motion_depth[0]", "gather.motion_depth[1]", "gather.output"}
ImageSlots == ScatterSlots \cup GatherForwardSlots \cup GatherSlots

\* uint2 tile_size { 32, 16 }
DefaultTileSize == <<32, 16>>
LargeTileSize == <<32, 32>>

\* make_unique<libwarp_state_struct>(): every pointer member null
NewState ==
    [ctx |-> NULL, dev |-> NULL, dev_queue |-> NULL,
     tile_size |-> DefaultTileSize,
     programs |-> <<>>,
     img |-> [s \in ImageSlots |-> NULL],
     depth_buffer |-> NULL]

VARIABLES
    libwarp_state,   \* unique_ptr<libwarp_state_struct>
    did_init,        \* the once_flag of libwarp_init
    libwarp_lock,    \* safe_mutex: 0 when free, else the thread holding it
    pc,              \* per thread: "idle", "locked" (in a body), "returning"
    crashed,         \* the process was terminated by a null dereference
    faults,          \* calls so far in which the environment failed something
    varied,          \* what the caller's second camera setup differs in
    call,            \* what the last executed entry point body did
    gpu              \* the compute device while it executes the scatter depth pass

hostvars == <<libwarp_state, did_init, libwarp_lock, pc, crashed, faults, varied, call>>
vars == <<hostvars, gpu>>

(***************************************************************************)
(* One execution of an entry point body: the library state it works on and *)
(* what it has done so far.  status is "run" until the body returns        *)
(* ("ret") or dereferences a null pointer ("crash").                       *)
(***************************************************************************)
Begin(t, op, cs) ==
    [t |-> t, op |-> op, cs |-> cs,
     st |-> libwarp_state, done |-> did_init,
     status |-> "run", ret |-> LIBWARP_SUCCESS,
     init_ran |-> FALSE,      \* the call_once body ran in this call
     init_err |-> LIBWARP_SUCCESS,
     berr |-> LIBWARP_SUCCESS, bprog |-> NULL,   \* libwarp_build's pair
     kerr |-> LIBWARP_SUCCESS,                   \* run_warp_kernel's result
     img_set |-> 0,
     tex |-> NULL,            \* the textures a gather call was handed
     compiles |-> 0,          \* add_program_source calls
     lookups |-> <<>>,        \* names passed to get_kernel
     wraps |-> 0,             \* wrap_image calls
     dispatched |-> <<>>,     \* kernels executed, with their arguments
     held |-> {}]             \* slots acquired in this call and not released

Return(M, code) == IF M.status = "run" THEN [M EXCEPT !.status = "ret", !.ret = code] ELSE M
Crash(M) == IF M.status = "run" THEN [M EXCEPT !.status = "crash"] ELSE M

(***************************************************************************)
(* libwarp_init.  ienv is what libfloor hands out when asked: the compute  *)
(* context, the fastest device and a queue, each possibly nullptr.         *)
(***************************************************************************)
\* the body of the lambda given to call_once, and the code it returns
InitLambda(ienv) ==
    LET s0 == [NewState EXCEPT !.ctx = ienv.ctx] IN
    IF s0.ctx = NULL THEN [st |-> s0, code |-> LIBWARP_NO_CONTEXT]
    ELSE LET s1 == [s0 EXCEPT !.dev = ienv.dev] IN
    IF s1.dev = NULL THEN [st |-> s1, code |-> LIBWARP_NO_DEVICE]
    ELSE LET s2 == [s1 EXCEPT !.dev_queue = ienv.dev_queue] IN
    IF s2.dev_queue = NULL THEN [st |-> s2, code |-> LIBWARP_NO_QUEUE]
    ELSE LET d == Deref(s2.dev)
             s3 == IF /\ d.max_work_group_size = 1024
                      /\ d.max_work_group_item_sizes[1] >= 32
                      /\ d.max_work_group_item_sizes[2] >= 32
                      /\ Deref(s2.ctx).compute_type # "HOST"
                   THEN [s2 EXCEPT !.tile_size = LargeTileSize]
                   ELSE s2
         IN [st |-> s3, code |-> LIBWARP_SUCCESS]

\* call_once discards what the lambda returns; libwarp_init returns
\* LIBWARP_SUCCESS on every path
InitResult(lambda_code) == LIBWARP_SUCCESS

libwarp_init(M, ienv) ==
    IF M.status # "run" THEN M
    ELSE IF M.done THEN [M EXCEPT !.init_err = LIBWARP_SUCCESS]
    ELSE LET r == InitLambda(ienv) IN
         [M EXCEPT !.done = TRUE, !.st = Ptr(r.st), !.init_ran = TRUE,
                   !.init_err = InitResult(r.code)]

\* LIBWARP_INIT_AND_LOCK, after the GUARD: return the error of libwarp_init
InitOrReturn(M, ienv) ==
    LET M1 == libwarp_init(M, ienv) IN
    IF M1.init_err # LIBWARP_SUCCESS THEN Return(M1, M1.init_err) ELSE M1

(***************************************************************************)
(* libwarp_build.  benv is what the compute backend answers: whether the   *)
(* source compiles, which named kernels the program lacks, and what        *)
(* get_kernel does when it is handed a null name.                          *)
(***************************************************************************)
\* the -D options of add_program_source; to_string(float) prints six decimals
to_string_float(x) == (x + 5) \div 10
BuildOptions(cs, tile_size) ==
    [LIBWARP_SCREEN_WIDTH |-> cs.screen_width,
     LIBWARP_SCREEN_HEIGHT |-> cs.screen_height,
     LIBWARP_SCREEN_FOV |-> to_string_float(cs.field_of_view),
     LIBWARP_NEAR_PLANE |-> to_string_float(cs.near_plane),
     LIBWARP_FAR_PLANE |-> to_string_float(cs.far_plane),
     TILE_SIZE_X |-> tile_size[1],
     TILE_SIZE_Y |-> tile_size[2],
     DEFAULT_DEPTH_TYPE |->
         IF cs.depth_type = LIBWARP_DEPTH_NORMALIZED THEN "depth_type::normalized"
         ELSE IF cs.depth_type = LIBWARP_DEPTH_Z_DIV_W THEN "depth_type::z_div_w"
         ELSE "depth_type::linear"]

\* ctx->add_program_source(...): the program, or nullptr when it does not compile
add_program_source(options, benv) ==
    IF benv.compiles THEN Ptr([options |-> options]) ELSE NULL

\* program->get_kernel(name): "abort" when the call does not come back
get_kernel(name, benv) ==
    IF name = NULL THEN
        CASE benv.null_name = "kernel" -> [abort |-> FALSE, kernel |-> Ptr("unnamed")]
          [] benv.null_name = "null" -> [abort |-> FALSE, kernel |-> NULL]
          [] OTHER -> [abort |-> TRUE, kernel |-> NULL]
    ELSE IF Deref(name) \in benv.absent THEN [abort |-> FALSE, kernel |-> NULL]
    ELSE [abort |-> FALSE, kernel |-> name]

\* for(size_t i = 0; i < warp_kernel_count(); ++i) { get_kernel; return on null }
RECURSIVE RetrieveKernels(_, _, _, _)
RetrieveKernels(i, kernels, lookups, benv) ==
    IF i >= warp_kernel_count
    THEN [outcome |-> "all", kernels |-> kernels, lookups |-> lookups]
    ELSE LET g == get_kernel(kernel_names[i], benv)
             l == Append(lookups, kernel_names[i])
             k == [kernels EXCEPT ![i] = g.kernel]
         IN IF g.abort THEN [outcome |-> "abort", kernels |-> kernels, lookups |-> l]
            ELSE IF g.kernel = NULL
            THEN [outcome |-> "missing", kernels |-> k, lookups |-> l]
            ELSE RetrieveKernels(i + 1, k, l, benv)

\* index of the first cached program whose camera setup memcmp()s equal, or 0
FindProgram(programs, cs) ==
    LET hits == {i \in 1..Len(programs) : memcmp_is_zero(programs[i].first, cs)}
    IN IF hits = {} THEN 0 ELSE CHOOSE i \in hits : \A j \in hits : i <= j

\* make_shared<camera_setup_program>(): a fresh unit, no program, no kernels
make_shared_program ==
    Ptr([program |-> NULL, kernels |-> [i \in 0..(warp_kernel_count - 1) |-> NULL]])

\* if(camera_setup->screen_width == 0 || camera_setup->screen_height == 0)
InvalidScreenDimWidthOnly(cs) == cs.screen_width = 0
InvalidScreenDim(cs) == cs.screen_width = 0 \/ cs.screen_height = 0

\* libwarp_state->programs.emplace_back(*camera_setup, program)
emplace_front(programs, cs, program) ==
    <<[first |-> cs, second |-> program]>> \o programs
emplace_back(programs, cs, program) ==
    Append(programs, [first |-> cs, second |-> program])

\* the end of libwarp_build: LIBWARP_NO_KERNEL as soon as one kernel is
\* missing, else the unit is put into the cache and returned
FinishBuildInsertFirst(M, cs, program, outcome) ==
    LET S == Deref(M.st)
        M1 == [M EXCEPT !.st = Ptr([S EXCEPT !.programs =
                                       emplace_back(@, cs, program)])]
    IN IF outcome = "missing"
       THEN [M1 EXCEPT !.berr = LIBWARP_NO_KERNEL, !.bprog = NULL]
       ELSE [M1 EXCEPT !.berr = LIBWARP_SUCCESS, !.bprog = Ptr(program)]
FinishBuild(M, cs, program, outcome) ==
    IF outcome = "missing"
    THEN [M EXCEPT !.berr = LIBWARP_NO_KERNEL, !.bprog = NULL]
    ELSE LET S == Deref(M.st)
         IN [M EXCEPT !.st = Ptr([S EXCEPT !.programs =
                                     emplace_back(@, cs, program)]),
                      !.berr = LIBWARP_SUCCESS, !.bprog = Ptr(program)]

libwarp_build(M, cs, benv) ==
    IF M.status # "run" THEN M
    ELSE IF InvalidScreenDim(cs)
    THEN [M EXCEPT !.berr = LIBWARP_INVALID_SCREEN_DIM, !.bprog = NULL]
    ELSE IF M.st = NULL THEN Crash(M)
    ELSE LET S == Deref(M.st)
             hit == FindProgram(S.programs, cs)
    IN IF hit # 0
       THEN [M EXCEPT !.berr = LIBWARP_SUCCESS, !.bprog = Ptr(S.programs[hit].second)]
       ELSE IF S.ctx = NULL THEN Crash(M)
       ELSE LET made == make_shared_program
                compiled == add_program_source(BuildOptions(cs, S.tile_size), benv)
                M1 == [M EXCEPT !.compiles = @ + 1]
       IN \* if(program == nullptr): tests the unit, not the program in it
          IF made = NULL
          THEN [M1 EXCEPT !.berr = LIBWARP_COMPILATION_FAILURE, !.bprog = NULL]
          \* program->program->get_kernel(...) on a null program
          ELSE IF compiled = NULL THEN Crash(M1)
          ELSE LET r == RetrieveKernels(0, Deref(made).kernels, <<>>, benv)
                   M2 == [M1 EXCEPT !.lookups = @ \o r.lookups]
                   program == [Deref(made) EXCEPT !.program = compiled,
                                                  !.kernels = r.kernels]
          IN IF r.outcome = "abort" THEN Crash(M2)
             ELSE FinishBuild(M2, cs, program, r.outcome)

\* libwarp_prebuild
libwarp_prebuild(M, ienv, benv) ==
    LET a0 == {InitOrReturn(M, ienv)}
        b == {libwarp_build(m, m.cs, benv) : m \in a0}
    IN CHOOSE r \in {Return(m, m.berr) : m \in b} : TRUE

\* libwarp_cleanup
libwarp_cleanup_resets(M) == Return([M EXCEPT !.st = NULL], LIBWARP_SUCCESS)
libwarp_cleanup(M) ==
    IF M.st = NULL THEN Return(M, LIBWARP_SUCCESS)
    ELSE Return([M EXCEPT !.st = Ptr([Deref(M.st) EXCEPT
                                         !.programs = <<>>,
                                         !.img = [s \in ImageSlots |-> NULL],
                                         !.depth_buffer = NULL])],
                LIBWARP_SUCCESS)

\* libwarp_reset
libwarp_reset(M) == Return([M EXCEPT !.st = NULL], LIBWARP_SUCCESS)


(***************************************************************************)
(* The per-call resource steps.  fail names the one step of the call that  *)
(* the graphics/compute backend lets fail: <<kind, slot>>.                 *)
(***************************************************************************)
NoFail == <<"none", "none">>

SetImg(M, slot, img) == [M EXCEPT !.st = Ptr([Deref(M.st) EXCEPT !.img[slot] = img])]

\* libwarp_wrap_gl_texture(img, gl_texture, read_write), and the caller's
\* return of LIBWARP_IMAGE_WRAP_FAILURE when it gives false
libwarp_wrap_gl_texture_null_only(M, slot, gl_texture, read_write, fail) ==
    IF M.status # "run" THEN M
    ELSE IF M.st = NULL THEN Crash(M)
    ELSE LET S == Deref(M.st)
             img == S.img[slot]
    IN IF img = NULL
       THEN IF S.ctx = NULL THEN Crash(M)
            ELSE LET wrapped == IF fail = <<"wrap", slot>> THEN NULL
                                ELSE Ptr([gl_object |-> gl_texture,
                                          read_write |-> read_write])
                     M1 == [SetImg(M, slot, wrapped) EXCEPT !.wraps = @ + 1]
                 IN IF wrapped = NULL
                    THEN Return(M1, LIBWARP_IMAGE_WRAP_FAILURE)
                    ELSE M1
       ELSE M
libwarp_wrap_gl_texture(M, slot, gl_texture, read_write, fail) ==
    IF M.status # "run" THEN M
    ELSE IF M.st = NULL THEN Crash(M)
    ELSE LET S == Deref(M.st)
             img == S.img[slot]
    IN IF img = NULL \/ Deref(img).gl_object # gl_texture
       THEN IF S.ctx = NULL THEN Crash(M)
            ELSE LET wrapped == IF fail = <<"wrap", slot>> THEN NULL
                                ELSE Ptr([gl_object |-> gl_texture,
                                          read_write |-> read_write])
                     M1 == [SetImg(M, slot, wrapped) EXCEPT !.wraps = @ + 1]
                 IN IF wrapped = NULL
                    THEN Return(M1, LIBWARP_IMAGE_WRAP_FAILURE)
                    ELSE M1
       ELSE M

\* img->acquire_opengl_object(dev_queue), LIBWARP_IMAGE_ACQUIRE_FAILURE on false
acquire_opengl_object(M, slot, fail) ==
    IF M.status # "run" THEN M
    ELSE IF M.st = NULL THEN Crash(M)
    ELSE LET img == Deref(M.st).img[slot]
    IN IF img = NULL THEN Crash(M)
       ELSE IF fail = <<"acquire", slot>>
       THEN Return(M, LIBWARP_IMAGE_ACQUIRE_FAILURE)
       ELSE [M EXCEPT !.held = @ \cup {slot}]

\* img->release_opengl_object(dev_queue), LIBWARP_IMAGE_RELEASE_FAILURE on false
release_opengl_object(M, slot, fail) ==
    IF M.status # "run" THEN M
    ELSE IF M.st = NULL THEN Crash(M)
    ELSE LET img == Deref(M.st).img[slot]
    IN IF img = NULL THEN Crash(M)
       ELSE IF fail = <<"release", slot>>
       THEN Return(M, LIBWARP_IMAGE_RELEASE_FAILURE)
       ELSE [M EXCEPT !.held = @ \ {slot}]

\* sizeof(float)
SizeofFloat == 4

\* the scatter depth buffer: (re)created when absent or too small
EnsureDepthBuffer(M, fail) ==
    IF M.status # "run" THEN M
    ELSE IF M.st = NULL THEN Crash(M)
    ELSE LET S == Deref(M.st)
             depth_buffer_size == SizeofFloat * M.cs.screen_width * M.cs.screen_height
    IN IF S.depth_buffer = NULL \/ Deref(S.depth_buffer).size < depth_buffer_size
       THEN IF S.ctx = NULL THEN Crash(M)
            ELSE LET created == IF fail = <<"alloc", "scatter.depth_buffer">> THEN NULL
                                ELSE Ptr([size |-> depth_buffer_size,
                                          contents |-> "uninitialized"])
                     M1 == [M EXCEPT !.st = Ptr([S EXCEPT !.depth_buffer = created])]
                 IN IF created = NULL
                    THEN Return(M1, LIBWARP_DEPTH_BUFFER_FAILURE)
                    ELSE M1
       ELSE M

(***************************************************************************)
(* run_warp_kernel<kernel_idx>                                             *)
(***************************************************************************)
\* per axis, the multiple of the tile size at or below
rounded_previous_multiple(v, m) == <<(v[1] \div m[1]) * m[1], (v[2] \div m[2]) * m[2]>>
\* uint2::rounded_next_multiple: per axis, the next multiple of the tile size
rounded_next_multiple(v, m) ==
    <<((v[1] + m[1] - 1) \div m[1]) * m[1], ((v[2] + m[2] - 1) \div m[2]) * m[2]>>

\* gather.color[i], gather.depth[i], gather.motion_depth[i], gather.motion[i]
GatherColor(i) == IF i = 0 THEN "gather.color[0]" ELSE "gather.color[1]"
GatherDepth(i) == IF i = 0 THEN "gather.depth[0]" ELSE "gather.depth[1]"
GatherMotionDepth(i) ==
    IF i = 0 THEN "gather.motion_depth[0]" ELSE "gather.motion_depth[1]"
GatherMotion(i) ==
    CASE i = 0 -> "gather.motion[0]" [] i = 1 -> "gather.motion[1]"
      [] i = 2 -> "gather.motion[2]" [] OTHER -> "gather.motion[3]"

\* the image members handed to the kernel, in argument order
KernelArgSlots(kernel_idx, img_set) ==
    CASE kernel_idx = KERNEL_SCATTER_DEPTH_PASS ->
                <<"scatter.depth", "scatter.motion">>
         [] kernel_idx = KERNEL_SCATTER_COLOR_DEPTH_TEST ->
                <<"scatter.color", "scatter.depth", "scatter.motion", "scatter.output">>
         [] kernel_idx = KERNEL_SCATTER_CLEAR -> <<"scatter.output">>
         [] kernel_idx = KERNEL_SCATTER_FIXUP -> <<"scatter.output">>
         [] kernel_idx = KERNEL_GATHER_FORWARD_ONLY ->
                <<"gather_forward.color", "gather_forward.motion",
                  "gather_forward.output">>
         [] kernel_idx = KERNEL_GATHER_BIDIRECTIONAL ->
                <<GatherColor(img_set), GatherDepth(img_set),
                  GatherColor(1 - img_set), GatherDepth(1 - img_set),
                  GatherMotion(img_set * 2), GatherMotion(img_set * 2 + 1),
                  GatherMotionDepth(img_set), GatherMotionDepth(1 - img_set),
                  "gather.output">>

UsesDepthBuffer(kernel_idx) ==
    kernel_idx \in {KERNEL_SCATTER_DEPTH_PASS, KERNEL_SCATTER_COLOR_DEPTH_TEST}

\* exec_params.wait_until_completion: all kernels must be blocking in here
dispatch_not_blocking == FALSE
wait_until_completion == TRUE

run_warp_kernel(M, kernel_idx, benv) ==
    IF M.status # "run" THEN M
    ELSE CHOOSE after_dispatch \in
      {IF B.status # "run" THEN B
       ELSE IF B.berr # LIBWARP_SUCCESS THEN [B EXCEPT !.kerr = B.berr]
       ELSE LET S == Deref(B.st)
                global_work_size ==
                    rounded_next_multiple(<<M.cs.screen_width, M.cs.screen_height>>,
                                          S.tile_size)
                \* depth pass: depth_buffer->fill(clear_depth) before the dispatch
                filled == IF kernel_idx = KERNEL_SCATTER_DEPTH_PASS
                          THEN [S EXCEPT !.depth_buffer =
                                   Ptr([Deref(@) EXCEPT !.contents = "clear"])]
                          ELSE S
                kernel == Deref(B.bprog).kernels[kernel_idx]
                after == IF kernel_idx = KERNEL_SCATTER_DEPTH_PASS
                         THEN [filled EXCEPT !.depth_buffer =
                                  Ptr([Deref(@) EXCEPT !.contents = "depth"])]
                         ELSE filled
                exec == [kernel |-> kernel_idx,
                         entry |-> kernel,
                         global_work_size |-> global_work_size,
                         local_work_size |-> S.tile_size,
                         wait_until_completion |-> wait_until_completion,
                         args |-> [i \in DOMAIN KernelArgSlots(kernel_idx, B.img_set) |->
                                      S.img[KernelArgSlots(kernel_idx, B.img_set)[i]]],
                         depth_buffer |-> IF UsesDepthBuffer(kernel_idx)
                                          THEN filled.depth_buffer ELSE NULL]
            IN IF kernel_idx = KERNEL_SCATTER_DEPTH_PASS /\ S.depth_buffer = NULL
               THEN Crash(B)
               \* *libwarp_state->dev_queue, libwarp_state->dev_queue->execute...
               ELSE IF S.dev_queue = NULL THEN Crash(B)
               ELSE IF kernel = NULL THEN Crash(B)
               ELSE [B EXCEPT !.st = Ptr(after), !.dispatched = Append(@, exec),
                              !.kerr = LIBWARP_SUCCESS]
       : B \in {libwarp_build(M, M.cs, benv)}} : TRUE


(***************************************************************************)
(* The warp entry points, after GUARD(libwarp_lock).  env is what the      *)
(* environment answers during the call: [init, build, fail].  Each         *)
(* statement works on the one machine its predecessor left.                *)
(***************************************************************************)
\* libwarp_scatter
libwarp_scatter(M, tex, env) ==
    LET f == env.fail
        a0 == {InitOrReturn(M, env.init)}
        w1 == {libwarp_wrap_gl_texture(m, "scatter.color", tex.color, FALSE, f) : m \in a0}
        w2 == {libwarp_wrap_gl_texture(m, "scatter.depth", tex.depth, FALSE, f) : m \in w1}
        w3 == {libwarp_wrap_gl_texture(m, "scatter.motion", tex.motion, FALSE, f) : m \in w2}
        w4 == {libwarp_wrap_gl_texture(m, "scatter.output", tex.output, TRUE, f) : m \in w3}
        q1 == {acquire_opengl_object(m, "scatter.color", f) : m \in w4}
        q2 == {acquire_opengl_object(m, "scatter.depth", f) : m \in q1}
        q3 == {acquire_opengl_object(m, "scatter.motion", f) : m \in q2}
        q4 == {acquire_opengl_object(m, "scatter.output", f) : m \in q3}
        d == {EnsureDepthBuffer(m, f) : m \in q4}
        k1 == {run_warp_kernel(m, KERNEL_SCATTER_DEPTH_PASS, env.build) : m \in d}
        k2 == {IF m.status = "run" /\ m.kerr = LIBWARP_SUCCESS
               THEN run_warp_kernel(m, KERNEL_SCATTER_COLOR_DEPTH_TEST, env.build)
               ELSE m : m \in k1}
        r1 == {release_opengl_object(m, "scatter.color", f) : m \in k2}
        r2 == {release_opengl_object(m, "scatter.depth", f) : m \in r1}
        r3 == {release_opengl_object(m, "scatter.motion", f) : m \in r2}
        r4 == {release_opengl_object(m, "scatter.output", f) : m \in r3}
    IN CHOOSE r \in {Return(m, m.kerr) : m \in r4} : TRUE

\* libwarp_gather: the image set, chosen from what gather.color[0] holds
GatherImgSet(M, color_current_texture) ==
    IF M.status # "run" THEN M
    ELSE IF M.st = NULL THEN Crash(M)
    ELSE LET c0 == Deref(M.st).img["gather.color[0]"]
         IN IF c0 # NULL /\ Deref(c0).gl_object # color_current_texture
            THEN [M EXCEPT !.img_set = 1]
            ELSE [M EXCEPT !.img_set = 0]

libwarp_gather(M, tex, env) ==
    LET f == env.fail
        a0 == {InitOrReturn(M, env.init)}
        s0 == {GatherImgSet(m, tex.color_current) : m \in a0}
        w1 == {libwarp_wrap_gl_texture(m, GatherColor(m.img_set), tex.color_current, FALSE, f) : m \in s0}
        w2 == {libwarp_wrap_gl_texture(m, GatherDepth(m.img_set), tex.depth_current, FALSE, f) : m \in w1}
        w3 == {libwarp_wrap_gl_texture(m, GatherColor(1 - m.img_set), tex.color_prev, FALSE, f) : m \in w2}
        w4 == {libwarp_wrap_gl_texture(m, GatherDepth(1 - m.img_set), tex.depth_prev, FALSE, f) : m \in w3}
        w5 == {libwarp_wrap_gl_texture(m, GatherMotionDepth(m.img_set),
                                       tex.motion_depth_forward, FALSE, f) : m \in w4}
        w6 == {libwarp_wrap_gl_texture(m, GatherMotionDepth(1 - m.img_set),
                                       tex.motion_depth_backward, FALSE, f) : m \in w5}
        w7 == {libwarp_wrap_gl_texture(m, GatherMotion(m.img_set * 2),
                                       tex.motion_forward, FALSE, f) : m \in w6}
        w8 == {libwarp_wrap_gl_texture(m, GatherMotion(m.img_set * 2 + 1),
                                       tex.motion_backward, FALSE, f) : m \in w7}
        w9 == {libwarp_wrap_gl_texture(m, "gather.output", tex.output, TRUE, f) : m \in w8}
        q1 == {acquire_opengl_object(m, "gather.color[0]", f) : m \in w9}
        q2 == {acquire_opengl_object(m, "gather.color[1]", f) : m \in q1}
        q3 == {acquire_opengl_object(m, "gather.depth[0]", f) : m \in q2}
        q4 == {acquire_opengl_object(m, "gather.depth[1]", f) : m \in q3}
        q5 == {acquire_opengl_object(m, "gather.motion_depth[0]", f) : m \in q4}
        q6 == {acquire_opengl_object(m, "gather.motion_depth[1]", f) : m \in q5}
        q7 == {acquire_opengl_object(m, GatherMotion(m.img_set * 2), f) : m \in q6}
        q8 == {acquire_opengl_object(m, GatherMotion(m.img_set * 2 + 1), f) : m \in q7}
        q9 == {acquire_opengl_object(m, "gather.output", f) : m \in q8}
        k == {run_warp_kernel(m, KERNEL_GATHER_BIDIRECTIONAL, env.build) : m \in q9}
        r1 == {release_opengl_object(m, "gather.color[0]", f) : m \in k}
        r2 == {release_opengl_object(m, "gather.color[1]", f) : m \in r1}
        r3 == {release_opengl_object(m, "gather.depth[0]", f) : m \in r2}
        r4 == {release_opengl_object(m, "gather.depth[1]", f) : m \in r3}
        r5 == {release_opengl_object(m, "gather.motion_depth[0]", f) : m \in r4}
        r6 == {release_opengl_object(m, "gather.motion_depth[1]", f) : m \in r5}
        r7 == {release_opengl_object(m, GatherMotion(m.img_set * 2), f) : m \in r6}
        r8 == {release_opengl_object(m, GatherMotion(m.img_set * 2 + 1), f) : m \in r7}
        r9 == {release_opengl_object(m, "gather.output", f) : m \in r8}
    IN CHOOSE r \in {Return(m, m.kerr) : m \in r9} : TRUE

\* libwarp_gather_forward_only
libwarp_gather_forward_only_reports_at_once(M, tex, env) ==
    LET f == env.fail
        a0 == {InitOrReturn(M, env.init)}
        w1 == {libwarp_wrap_gl_texture(m, "gather_forward.color", tex.color, FALSE, f) : m \in a0}
        w2 == {libwarp_wrap_gl_texture(m, "gather_forward.motion", tex.motion, FALSE, f) : m \in w1}
        w3 == {libwarp_wrap_gl_texture(m, "gather_forward.output", tex.output, TRUE, f) : m \in w2}
        q1 == {acquire_opengl_object(m, "gather_forward.color", f) : m \in w3}
        q2 == {acquire_opengl_object(m, "gather_forward.motion", f) : m \in q1}
        q3 == {acquire_opengl_object(m, "gather_forward.output", f) : m \in q2}
        k == {run_warp_kernel(m, KERNEL_GATHER_FORWARD_ONLY, env.build) : m \in q3}
        e == {IF m.kerr # LIBWARP_SUCCESS THEN Return(m, m.kerr) ELSE m : m \in k}
        r1 == {release_opengl_object(m, "gather_forward.color", f) : m \in e}
        r2 == {release_opengl_object(m, "gather_forward.motion", f) : m \in r1}
        r3 == {release_opengl_object(m, "gather_forward.output", f) : m \in r2}
    IN CHOOSE r \in {Return(m, m.kerr) : m \in r3} : TRUE
libwarp_gather_forward_only(M, tex, env) ==
    LET f == env.fail
        a0 == {InitOrReturn(M, env.init)}
        w1 == {libwarp_wrap_gl_texture(m, "gather_forward.color", tex.color, FALSE, f) : m \in a0}
        w2 == {libwarp_wrap_gl_texture(m, "gather_forward.motion", tex.motion, FALSE, f) : m \in w1}
        w3 == {libwarp_wrap_gl_texture(m, "gather_forward.output", tex.output, TRUE, f) : m \in w2}
        q1 == {acquire_opengl_object(m, "gather_forward.color", f) : m \in w3}
        q2 == {acquire_opengl_object(m, "gather_forward.motion", f) : m \in q1}
        q3 == {acquire_opengl_object(m, "gather_forward.output", f) : m \in q2}
        k == {run_warp_kernel(m, KERNEL_GATHER_FORWARD_ONLY, env.build) : m \in q3}
        r1 == {release_opengl_object(m, "gather_forward.color", f) : m \in k}
        r2 == {release_opengl_object(m, "gather_forward.motion", f) : m \in r1}
        r3 == {release_opengl_object(m, "gather_forward.output", f) : m \in r2}
    IN CHOOSE r \in {Return(m, m.kerr) : m \in r3} : TRUE


(***************************************************************************)
(* What callers pass and what the environment answers                      *)
(***************************************************************************)
\* floor::get_compute_context(), get_device(FASTEST), create_queue(dev)
GoodInit ==
    [ctx |-> Ptr([compute_type |-> "METAL"]),
     dev |-> Ptr([max_work_group_size |-> 1024,
                  max_work_group_item_sizes |-> <<1024, 1024>>]),
     dev_queue |-> Ptr("queue")]
NoContextInit == [GoodInit EXCEPT !.ctx = NULL]
NoDeviceInit == [GoodInit EXCEPT !.dev = NULL]
NoQueueInit == [GoodInit EXCEPT !.dev_queue = NULL]
InitEnvs == {GoodInit, NoContextInit, NoDeviceInit, NoQueueInit}

\* the compute backend's answers to one build
GoodBuild == [compiles |-> TRUE, absent |-> {}, null_name |-> "kernel"]
BuildEnvs ==
    {GoodBuild,
     [GoodBuild EXCEPT !.compiles = FALSE],
     [GoodBuild EXCEPT !.absent = {"warp_scatter_color"}],
     [GoodBuild EXCEPT !.null_name = "null"],
     [GoodBuild EXCEPT !.null_name = "abort"]}

\* the texture names (GLuint) callers pass
ScatterTextures == {[color |-> 1, depth |-> 2, motion |-> 3, output |-> 4]}
GatherForwardTextures == {[color |-> 1, motion |-> 3, output |-> 4]}
GatherTextures ==
    {[color_current |-> 1, depth_current |-> 2, color_prev |-> 5, depth_prev |-> 6,
      motion_forward |-> 3, motion_backward |-> 7,
      motion_depth_forward |-> 8, motion_depth_backward |-> 9, output |-> 4]}

\* the one step of a call that fails, if any: the wrap or the release of the
\* first texture, the acquire of the first or of the second one
FailPoints(first, second) ==
    ({"wrap", "release"} \X {first}) \cup ({"acquire"} \X {first, second})
ScatterFails ==
    FailPoints("scatter.color", "scatter.depth")
        \cup {<<"alloc", "scatter.depth_buffer">>}
GatherForwardFails ==
    FailPoints("gather_forward.color", "gather_forward.motion")
GatherFails == FailPoints("gather.color[0]", "gather.color[1]")

\* The answers that can differ in effect: an initialisation answer matters
\* on the first call only, a failing step ends the call before the build or
\* replaces its result, so each is varied with the others at their good value.
GoodEnv == [init |-> GoodInit, build |-> GoodBuild, fail |-> NoFail]
Envs(fails) ==
    IF faults >= MaxFaults THEN {GoodEnv}
    ELSE {GoodEnv}
         \cup {[GoodEnv EXCEPT !.init = i] :
                  i \in (IF did_init THEN {GoodInit} ELSE InitEnvs)}
         \cup {[GoodEnv EXCEPT !.build = b] : b \in BuildEnvs}
         \cup {[GoodEnv EXCEPT !.fail = f] : f \in fails}
         \cup {[GoodEnv EXCEPT !.build = b, !.fail = f] :
                  b \in {[GoodBuild EXCEPT !.compiles = FALSE],
                          [GoodBuild EXCEPT !.absent = {"warp_scatter_color"}]},
                  f \in {g \in fails : g[1] = "release"}}

\* the camera setups the callers of one run pass
Setups == {BaseSetup, VariantOf(varied), ZeroWidthSetup, ZeroHeightSetup}
ZeroSetups == {BaseSetup, ZeroWidthSetup, ZeroHeightSetup}
TwoSetups == {BaseSetup, VariantOf(varied)}

(***************************************************************************)
(* The scatter depth pass on the compute device: the fill of the depth     *)
(* buffer that run_warp_kernel issues, then one work-item per global id    *)
(* running libwarp_warp_scatter_depth, in any order.  A float is kept as   *)
(* its IEEE-754 single precision bits (sign, then exponent and mantissa),  *)
(* a uint32_t as its top bit and its low 31 bits.                          *)
(***************************************************************************)
Float(sign, exp_mant) == [sign |-> sign, exp_mant |-> exp_mant]
Minus1 == Float(1, 1065353216)          \* -1.0f, 0xBF800000
Plus1 == Float(0, 1065353216)           \* 1.0f, 0x3F800000
Plus5 == Float(0, 1084227584)           \* 5.0f, 0x40A00000
PlusInfinity == Float(0, 2139095040)    \* 0x7F800000
\* const float clear_depth = numeric_limits<float>::max(), 0x7F7FFFFF
clear_depth == Float(0, 2139095039)

\* a < b on two floats, neither a NaN
float_less(a, b) ==
    IF a.sign = 1
    THEN IF b.sign = 1 THEN a.exp_mant > b.exp_mant
         ELSE a.exp_mant # 0 \/ b.exp_mant # 0
    ELSE b.sign = 0 /\ a.exp_mant < b.exp_mant

\* *(const uint32_t*)&f, and the way back
as_uint32(f) == [hi |-> f.sign, lo |-> f.exp_mant]
as_float(u) == Float(u.hi, u.lo)
uint32_less(a, b) == a.hi < b.hi \/ (a.hi = b.hi /\ a.lo < b.lo)

\* atomic_min(&cell, val): the cell afterwards, in one indivisible step
atomic_store(cell, val) == val
atomic_min(cell, val) == IF uint32_less(val, cell) THEN val ELSE cell

\* the -D options the program of BaseSetup is compiled with
LIBWARP_SCREEN_WIDTH == BaseSetup.screen_width
LIBWARP_SCREEN_HEIGHT == BaseSetup.screen_height
\* a work-group smaller than the library's, so that the grid stays small
\* and still overhangs the screen
TILE_SIZE_X == 3
TILE_SIZE_Y == 2

\* the global ids of the dispatch: the screen rounded up to whole tiles
GlobalWorkSize ==
    rounded_next_multiple(<<LIBWARP_SCREEN_WIDTH, LIBWARP_SCREEN_HEIGHT>>,
                          <<TILE_SIZE_X, TILE_SIZE_Y>>)
GlobalIds == (0..(GlobalWorkSize[1] - 1)) \X (0..(GlobalWorkSize[2] - 1))
Cells == 0..(LIBWARP_SCREEN_WIDTH * LIBWARP_SCREEN_HEIGHT - 1)

\* screen_check(): TRUE when the work-item returns at once
screen_check(global_id) ==
    /\ \/ (LIBWARP_SCREEN_WIDTH \div TILE_SIZE_X) * TILE_SIZE_X # LIBWARP_SCREEN_WIDTH
       \/ (LIBWARP_SCREEN_HEIGHT \div TILE_SIZE_Y) * TILE_SIZE_Y # LIBWARP_SCREEN_HEIGHT
    /\ (global_id[1] >= LIBWARP_SCREEN_WIDTH \/ global_id[2] >= LIBWARP_SCREEN_HEIGHT)

\* what scatter() can give for a source pixel, depending on the depth and
\* motion images: a destination inside the screen or beyond its right edge,
\* and the pixel's linear depth
ScatteredCoords == {<<0, 0>>, <<1, 1>>, <<LIBWARP_SCREEN_WIDTH, 0>>}
LinearDepths == {Minus1, Plus1, Plus5, PlusInfinity}
ScatterResults == [coord : ScatteredCoords, linear_depth : LinearDepths]

\* scattered.coord.x < LIBWARP_SCREEN_WIDTH && scattered.coord.y < LIBWARP_SCREEN_HEIGHT
InBoundsWidthOnly(coord) == coord[1] < LIBWARP_SCREEN_WIDTH
InBounds(coord) == coord[1] < LIBWARP_SCREEN_WIDTH /\ coord[2] < LIBWARP_SCREEN_HEIGHT
CellOf(coord) == coord[2] * LIBWARP_SCREEN_WIDTH + coord[1]

\* the body of libwarp_warp_scatter_depth for one work-item: the depth buffer
\* afterwards
libwarp_warp_scatter_depth(depth_buffer, global_id, scattered) ==
    IF screen_check(global_id) THEN depth_buffer
    ELSE IF InBounds(scattered.coord)
    THEN [depth_buffer EXCEPT ![CellOf(scattered.coord)] =
              atomic_min(@, as_uint32(scattered.linear_depth))]
    ELSE depth_buffer

\* no dispatch is running
GpuIdle ==
    [phase |-> "idle",
     depth_buffer |-> [c \in Cells |-> as_uint32(clear_depth)],
     done |-> {},
     scattered |-> [id \in GlobalIds |-> NULL]]

\* a dispatch of the depth pass that leaves the buffer as it was
FillSkipped ==
    /\ gpu.phase = "fill"
    /\ gpu' = [gpu EXCEPT !.phase = "kernel"]
    /\ UNCHANGED hostvars

\* scatter.depth_buffer->fill(*dev_queue, &clear_depth, sizeof(clear_depth))
Fill ==
    /\ gpu.phase = "fill"
    /\ gpu' = [gpu EXCEPT !.phase = "kernel",
                          !.depth_buffer = [c \in Cells |-> as_uint32(clear_depth)]]
    /\ UNCHANGED hostvars

\* one work-item of the dispatch runs; the images decide what scatter() gives
WorkItem(global_id) ==
    /\ gpu.phase = "kernel"
    /\ global_id \notin gpu.done
    /\ \E scattered \in ScatterResults :
          gpu' = [gpu EXCEPT
                     !.depth_buffer =
                         libwarp_warp_scatter_depth(@, global_id, scattered),
                     !.done = @ \cup {global_id},
                     !.scattered[global_id] =
                         IF screen_check(global_id) THEN NULL ELSE Ptr(scattered)]
    /\ UNCHANGED hostvars

\* wait_until_completion: execute_with_parameters returns
DepthPassCompleted == gpu.phase = "kernel" /\ gpu.done = GlobalIds

(***************************************************************************)
(* The scatter color pass, dispatched once the depth pass has completed.   *)
(* A color is its three channels xyz and the channel w that the pipeline   *)
(* uses as the validity of an output pixel; channel values are integers,   *)
(* and nan says that the xyz channels hold NaN.                            *)
(***************************************************************************)
Color(x, y, z, w) == [xyz |-> <<x, y, z>>, w |-> w, nan |-> FALSE]
Pixels == (0..(LIBWARP_SCREEN_WIDTH - 1)) \X (0..(LIBWARP_SCREEN_HEIGHT - 1))

\* img_color.read(coord): every source pixel has a color of its own; its w
\* channel is what the renderer left there
img_color(coord) == Color(coord[1] + 1, coord[2] + 1, 5, 0)

\* what the output image holds before the scatter call: the colors of an
\* earlier frame, some pixels written, some not
PreviousOutput == [p \in Pixels |-> Color(9, 9, 9, (p[1] + p[2]) % 2)]

\* the depth pass run to completion over the work-items of ids
RECURSIVE RunDepthPass(_, _, _)
RunDepthPass(depth_buffer, ids, scattered) ==
    IF ids = {} THEN depth_buffer
    ELSE LET id == CHOOSE i \in ids : TRUE
         IN RunDepthPass(IF scattered[id] = NULL THEN depth_buffer
                         ELSE libwarp_warp_scatter_depth(depth_buffer, id,
                                                         Deref(scattered[id])),
                         ids \ {id}, scattered)

\* the body of libwarp_warp_scatter_color for one work-item: the output image
\* afterwards
scatter_color_no_depth_test(img_out_color, depth_buffer, global_id, scattered) ==
    IF screen_check(global_id) THEN img_out_color
    ELSE IF ~InBounds(scattered.coord) THEN img_out_color
    ELSE [img_out_color EXCEPT ![scattered.coord] =
              [img_color(global_id) EXCEPT !.w = 1]]
scatter_color_rejects_equal(img_out_color, depth_buffer, global_id, scattered) ==
    IF screen_check(global_id) THEN img_out_color
    ELSE IF ~InBounds(scattered.coord) THEN img_out_color
    ELSE LET dst_depth == as_float(depth_buffer[CellOf(scattered.coord)])
         IN IF ~float_less(scattered.linear_depth, dst_depth) THEN img_out_color
            ELSE [img_out_color EXCEPT ![scattered.coord] =
                     [img_color(global_id) EXCEPT !.w = 1]]
libwarp_warp_scatter_color(img_out_color, depth_buffer, global_id, scattered) ==
    IF screen_check(global_id) THEN img_out_color
    ELSE IF ~InBounds(scattered.coord) THEN img_out_color
    ELSE LET dst_depth == as_float(depth_buffer[CellOf(scattered.coord)])
         IN IF float_less(dst_depth, scattered.linear_depth) THEN img_out_color
            ELSE [img_out_color EXCEPT ![scattered.coord] =
                     [img_color(global_id) EXCEPT !.w = 1]]

\* one work-item of the color pass runs: the same forward transform as in the
\* depth pass, then the depth test and the write
ColorWorkItem(global_id) ==
    /\ gpu.phase = "color"
    /\ global_id \notin gpu.done
    /\ LET scattered == IF gpu.scattered[global_id] = NULL
                        THEN [coord |-> global_id, linear_depth |-> Plus1]
                        ELSE Deref(gpu.scattered[global_id])
           out == libwarp_warp_scatter_color(gpu.img_out_color, gpu.depth_buffer,
                                             global_id, scattered)
       IN gpu' = [gpu EXCEPT !.img_out_color = out, !.done = @ \cup {global_id}]
    /\ UNCHANGED hostvars

\* wait_until_completion: execute_with_parameters returns
ColorPassCompleted == gpu.phase = "color" /\ gpu.done = GlobalIds

(***************************************************************************)
(* The single pixel fixup, which reads and writes the one image warp_img.  *)
(* Work-items run in any order, each seeing what the earlier ones wrote.   *)
(***************************************************************************)
\* mirrored repeat addressing of one coordinate on an axis of n pixels
mirrored(i, n) ==
    LET m == i % (2 * n) IN IF m >= n THEN 2 * n - 1 - m ELSE m
\* warp_img.read_repeat_mirrored(coord, offset)
read_repeat_mirrored(warp_img, coord, offset) ==
    warp_img[<<mirrored(coord[1] + offset[1], LIBWARP_SCREEN_WIDTH),
               mirrored(coord[2] + offset[2], LIBWARP_SCREEN_HEIGHT)>>]
\* the offsets of colors[]: up, right, down, left
NeighbourOffsets == <<<<0, -1>>, <<1, 0>>, <<0, 1>>, <<-1, 0>>>>

\* avg += col.xyz * col.w and sum += col.w over colors[], from index i on
RECURSIVE WeightedSum(_, _, _)
WeightedSum(colors, i, acc) ==
    IF i > Len(colors) THEN acc
    ELSE WeightedSum(colors, i + 1,
                     [avg |-> [k \in 1..3 |-> acc.avg[k] + colors[i].xyz[k] * colors[i].w],
                      sum |-> acc.sum + colors[i].w,
                      nan |-> acc.nan \/ colors[i].nan])

\* the body of libwarp_single_px_fixup for one work-item: the image afterwards.
\* 1.0f / sum is infinite for sum = 0, and avg times it is NaN.
libwarp_single_px_fixup(warp_img, global_id) ==
    IF screen_check(global_id) THEN warp_img
    ELSE LET coord == global_id
             color == warp_img[coord]
         IN IF color.w >= 1 THEN warp_img
            ELSE LET colors == [i \in 1..4 |->
                                   read_repeat_mirrored(warp_img, coord,
                                                        NeighbourOffsets[i])]
                     s == WeightedSum(colors, 1,
                                      [avg |-> <<0, 0, 0>>, sum |-> 0, nan |-> FALSE])
                 IN [warp_img EXCEPT ![coord] =
                        IF s.sum = 0 \/ s.nan
                        THEN [xyz |-> <<0, 0, 0>>, w |-> 1, nan |-> TRUE]
                        ELSE [xyz |-> [k \in 1..3 |-> s.avg[k] \div s.sum],
                              w |-> 1, nan |-> FALSE]]

\* one work-item of the fixup runs
FixupWorkItem(global_id) ==
    /\ gpu.phase = "fixup"
    /\ global_id \notin gpu.done
    /\ gpu' = [gpu EXCEPT !.warp_img = libwarp_single_px_fixup(@, global_id),
                          !.done = @ \cup {global_id}]
    /\ UNCHANGED hostvars

FixupCompleted == gpu.phase = "fixup" /\ gpu.done = GlobalIds

(***************************************************************************)
(* The bidirectional gather kernel.  Depths, delta and the camera planes   *)
(* are fixed-point numbers in thousandths, the screen-space errors are in  *)
(* units of 10^-10.  What the searches found and what the images hold at   *)
(* the positions found is given as one record of samples; a color read     *)
(* from an image is named by the image and the position it was read at.    *)
(***************************************************************************)
fabs(a) == IF a < 0 THEN 0 - a ELSE a
\* a * b and a / b on thousandths, rounded towards zero
fmul(a, b) ==
    IF (a < 0) = (b < 0) THEN (fabs(a) * fabs(b)) \div 1000
    ELSE 0 - ((fabs(a) * fabs(b)) \div 1000)
fdiv(a, b) ==
    IF (a < 0) = (b < 0) THEN (fabs(a) * 1000) \div fabs(b)
    ELSE 0 - ((fabs(a) * 1000) \div fabs(b))

\* the -D options the program of BaseSetup is compiled with
LIBWARP_NEAR_PLANE == BuildOptions(BaseSetup, DefaultTileSize).LIBWARP_NEAR_PLANE \div 1000
LIBWARP_FAR_PLANE == BuildOptions(BaseSetup, DefaultTileSize).LIBWARP_FAR_PLANE \div 1000
DEFAULT_DEPTH_TYPE == BuildOptions(BaseSetup, DefaultTileSize).DEFAULT_DEPTH_TYPE

\* warp_camera::linearize_depth<type>(depth)
near_far_projection ==
    [x |-> fdiv(0 - (LIBWARP_FAR_PLANE + LIBWARP_NEAR_PLANE),
                LIBWARP_NEAR_PLANE - LIBWARP_FAR_PLANE),
     y |-> fdiv(2 * fmul(LIBWARP_FAR_PLANE, LIBWARP_NEAR_PLANE),
                LIBWARP_NEAR_PLANE - LIBWARP_FAR_PLANE)]
linearize_depth(type, depth) ==
    IF type = "depth_type::normalized"
    THEN IF depth = 1000 THEN 1000
         ELSE fdiv(near_far_projection.y, depth - near_far_projection.x)
    ELSE IF type = "depth_type::z_div_w"
    THEN depth + LIBWARP_NEAR_PLANE
             - fmul(depth, fdiv(LIBWARP_NEAR_PLANE, LIBWARP_FAR_PLANE))
    ELSE depth

\* a.interpolated(b, t)
interpolated(a, b, t) == [from |-> a, to |-> b, t |-> t]
\* img.read_linear_repeat_mirrored(position)
read_linear_repeat_mirrored(img, position) == [img |-> img, at |-> position]

\* epsilon_1 * epsilon_1 with epsilon_1 = 0.00025, and the depth epsilon 2.0
epsilon_1_sq == 625
epsilon_2 == 2000

\* what one work-item computes before it decides: the colors read, the
\* linearized depths of the two branches and the validity of each
GatherTerms(in) ==
    LET color_fwd == read_linear_repeat_mirrored("img_color_prev", "p_fwd")
        color_bwd == read_linear_repeat_mirrored("img_color", "p_bwd")
    IN [delta |-> in.delta,
        color_fwd |-> color_fwd,
        color_bwd |-> color_bwd,
        err_fwd |-> in.err_fwd,
        err_bwd |-> in.err_bwd,
        z_fwd |-> linearize_depth(DEFAULT_DEPTH_TYPE, in.img_depth_prev_at_p_fwd)
                      + fmul(in.delta,
                             linearize_depth("depth_type::z_div_w", in.depth_fwd)),
        z_bwd |-> linearize_depth(DEFAULT_DEPTH_TYPE, in.img_depth_at_p_bwd)
                      + fmul(1000 - in.delta,
                             linearize_depth("depth_type::z_div_w", in.depth_bwd)),
        fwd_valid |-> in.err_fwd < epsilon_1_sq,
        bwd_valid |-> in.err_bwd < epsilon_1_sq,
        proj_color_fwd |->
            interpolated(color_fwd,
                         read_linear_repeat_mirrored("img_color", "p_fwd + motion_fwd"),
                         in.delta),
        proj_color_bwd |->
            interpolated(read_linear_repeat_mirrored("img_color_prev",
                                                     "p_bwd + motion_bwd"),
                         color_bwd, in.delta),
        z_fwd_other |-> in.img_depth_at_p_fwd_motion
                            + fmul(1000 - in.delta, in.motion_depth_backward_at_p_fwd_motion),
        z_bwd_other |-> in.img_depth_prev_at_p_bwd_motion
                            + fmul(in.delta, in.motion_depth_forward_at_p_bwd_motion)]

\* the color the work-item writes, from the terms above
gather_color_higher_error(g) ==
    IF g.fwd_valid /\ g.bwd_valid
    THEN IF fabs(g.z_fwd - g.z_bwd) < epsilon_2
         THEN IF g.err_fwd > g.err_bwd THEN g.proj_color_fwd ELSE g.proj_color_bwd
         ELSE IF g.z_fwd < g.z_bwd
              THEN IF fabs(g.z_fwd - g.z_fwd_other) < epsilon_2
                   THEN g.proj_color_fwd ELSE g.color_fwd
              ELSE IF fabs(g.z_bwd - g.z_bwd_other) < epsilon_2
                   THEN g.proj_color_bwd ELSE g.color_bwd
    ELSE IF g.fwd_valid THEN g.color_fwd
    ELSE IF g.bwd_valid THEN g.color_bwd
    ELSE interpolated(g.color_fwd, g.color_bwd, g.delta)
gather_color_blends_single(g) ==
    IF g.fwd_valid /\ g.bwd_valid
    THEN IF fabs(g.z_fwd - g.z_bwd) < epsilon_2
         THEN IF g.err_fwd < g.err_bwd THEN g.proj_color_fwd ELSE g.proj_color_bwd
         ELSE IF g.z_fwd < g.z_bwd
              THEN IF fabs(g.z_fwd - g.z_fwd_other) < epsilon_2
                   THEN g.proj_color_fwd ELSE g.color_fwd
              ELSE IF fabs(g.z_bwd - g.z_bwd_other) < epsilon_2
                   THEN g.proj_color_bwd ELSE g.color_bwd
    ELSE IF g.fwd_valid THEN g.proj_color_fwd
    ELSE IF g.bwd_valid THEN g.color_bwd
    ELSE interpolated(g.color_fwd, g.color_bwd, g.delta)
gather_color(g) ==
    IF g.fwd_valid /\ g.bwd_valid
    THEN IF fabs(g.z_fwd - g.z_bwd) < epsilon_2
         THEN IF g.err_fwd < g.err_bwd THEN g.proj_color_fwd ELSE g.proj_color_bwd
         ELSE IF g.z_fwd < g.z_bwd
              THEN IF fabs(g.z_fwd - g.z_fwd_other) < epsilon_2
                   THEN g.proj_color_fwd ELSE g.color_fwd
              ELSE IF fabs(g.z_bwd - g.z_bwd_other) < epsilon_2
                   THEN g.proj_color_bwd ELSE g.color_bwd
    ELSE IF g.fwd_valid THEN g.color_fwd
    ELSE IF g.bwd_valid THEN g.color_bwd
    ELSE interpolated(g.color_fwd, g.color_bwd, g.delta)

\* the body of libwarp_warp_gather for one work-item: the colors written to
\* the output image so far, pixel by pixel
libwarp_warp_gather(written, global_id, in) ==
    IF screen_check(global_id) THEN written
    ELSE [written EXCEPT ![global_id] =
             Append(@, gather_color(GatherTerms(in)))]

\* one work-item of the gather runs
GatherWorkItem(global_id) ==
    /\ gpu.phase = "gather"
    /\ global_id \notin gpu.done
    /\ gpu' = [gpu EXCEPT !.written = libwarp_warp_gather(@, global_id, gpu.samples),
                          !.done = @ \cup {global_id}]
    /\ UNCHANGED hostvars

GatherCompleted == gpu.phase = "gather" /\ gpu.done = GlobalIds

(***************************************************************************)
(* Actions.  A caller takes the lock (GUARD) and then runs the body of the *)
(* entry point it called; the lock is given back as the function returns.  *)
(***************************************************************************)
InitState ==
    /\ libwarp_state = NULL
    /\ did_init = FALSE
    /\ libwarp_lock = 0
    /\ pc = [t \in Threads |-> "idle"]
    /\ crashed = FALSE
    /\ faults = 0
    /\ call = [op |-> "none", cs |-> BaseSetup, status |-> "ret",
               ret |-> LIBWARP_SUCCESS, init_ran |-> FALSE, compiles |-> 0,
               lookups |-> <<>>, wraps |-> 0, dispatched |-> <<>>, held |-> {},
               berr |-> LIBWARP_SUCCESS, env |-> GoodEnv, cache_before |-> <<>>,
               tex |-> NULL,
               before |-> [op |-> "none", cs |-> BaseSetup, ok |-> TRUE]]

Init == InitState /\ varied = "screen_width" /\ gpu = GpuIdle

\* safe_mutex::lock(): blocks while another thread holds the mutex
MutexNeverTaken == TRUE
MutexFree == libwarp_lock = 0

\* GUARD(libwarp_lock) at the top of an entry point
Lock(t) ==
    /\ ~crashed
    /\ pc[t] = "idle"
    /\ MutexFree
    /\ libwarp_lock' = t
    /\ pc' = [pc EXCEPT ![t] = "locked"]
    /\ UNCHANGED <<libwarp_state, did_init, crashed, faults, varied, call, gpu>>

CacheOf(st) == IF st = NULL THEN <<>> ELSE Deref(st).programs

\* The body has run and M is what it did.  A function that returns lets its
\* GUARD go out of scope, which unlocks the mutex.
\* ~GUARD(): the lock_guard of a body that returns unlocks the mutex
unlocked_on_success_only(M) ==
    IF M.status = "ret" /\ M.ret = LIBWARP_SUCCESS THEN 0 ELSE libwarp_lock
unlocked(M) == IF M.status = "crash" THEN libwarp_lock ELSE 0
Finish(M, env) ==
    /\ faults' = IF env = GoodEnv THEN faults ELSE faults + 1
    /\ UNCHANGED <<varied, gpu>>
    /\ libwarp_state' = M.st
    /\ did_init' = M.done
    /\ crashed' = (M.status = "crash")
    /\ pc' = IF M.status = "crash" THEN pc ELSE [pc EXCEPT ![M.t] = "idle"]
    /\ libwarp_lock' = unlocked(M)
    /\ call' = [op |-> M.op, cs |-> M.cs, status |-> M.status,
                ret |-> M.ret, init_ran |-> M.init_ran, compiles |-> M.compiles,
                lookups |-> M.lookups, wraps |-> M.wraps,
                dispatched |-> M.dispatched, held |-> M.held, berr |-> M.berr,
                env |-> env, tex |-> M.tex,
                cache_before |-> CacheOf(libwarp_state),
                \* for a cleanup: the call it came after, and whether that
                \* call had succeeded
                before |-> IF M.op = "cleanup"
                           THEN [op |-> call.op, cs |-> call.cs,
                                 ok |-> call.status = "ret" /\ call.ret = LIBWARP_SUCCESS]
                           ELSE [op |-> "none", cs |-> BaseSetup, ok |-> TRUE]]

InBody(t) == ~crashed /\ pc[t] = "locked"

PrebuildWith(t, setups) ==
    /\ InBody(t)
    /\ \E cs \in setups, env \in Envs({}) :
          \E M \in {libwarp_prebuild(Begin(t, "prebuild", cs), env.init, env.build)} :
              Finish(M, env)

ScatterWith(t, setups, fails) ==
    /\ InBody(t)
    /\ \E cs \in setups, tex \in ScatterTextures, env \in Envs(fails) :
          \E M \in {libwarp_scatter(Begin(t, "scatter", cs), tex, env)} :
              Finish(M, env)

GatherTextured(t, setups, textures, fails) ==
    /\ InBody(t)
    /\ \E cs \in setups, tex \in textures, env \in Envs(fails) :
          \E M \in {libwarp_gather([Begin(t, "gather", cs) EXCEPT !.tex = Ptr(tex)],
                                   tex, env)} :
              Finish(M, env)
GatherWith(t, setups, fails) == GatherTextured(t, setups, GatherTextures, fails)

GatherForwardOnlyWith(t, setups, fails) ==
    /\ InBody(t)
    /\ \E cs \in setups, tex \in GatherForwardTextures, env \in Envs(fails) :
          \E M \in {libwarp_gather_forward_only(Begin(t, "gather_forward_only", cs),
                                                 tex, env)} :
              Finish(M, env)

Prebuild(t) == PrebuildWith(t, ZeroSetups)
Scatter(t) == ScatterWith(t, ZeroSetups, ScatterFails)
Gather(t) == GatherWith(t, ZeroSetups, GatherFails)
GatherForwardOnly(t) == GatherForwardOnlyWith(t, ZeroSetups, GatherForwardFails)

Cleanup(t) ==
    /\ InBody(t)
    /\ \E M \in {libwarp_cleanup(Begin(t, "cleanup", BaseSetup))} : Finish(M, GoodEnv)

Reset(t) ==
    /\ InBody(t)
    /\ \E M \in {libwarp_reset(Begin(t, "reset", BaseSetup))} : Finish(M, GoodEnv)

Next ==
    \E t \in Threads :
        \/ Lock(t)
        \/ Prebuild(t)
        \/ Scatter(t)
        \/ Gather(t)
        \/ GatherForwardOnly(t)
        \/ Cleanup(t)
        \/ Reset(t)

Spec == Init /\ [][Next]_vars

(***************************************************************************)
(* The entry points called with the one camera setup, each with every      *)
(* failure it can meet.  A caller that is at GUARD(libwarp_lock) while the *)
(* mutex is free gets it.                                                  *)
(***************************************************************************)
PrebuildBase(t) == PrebuildWith(t, {BaseSetup})
ScatterBase(t) == ScatterWith(t, {BaseSetup}, ScatterFails)
GatherBase(t) == GatherWith(t, {BaseSetup}, GatherFails)
GatherForwardOnlyBase(t) == GatherForwardOnlyWith(t, {BaseSetup}, GatherForwardFails)

NextLive ==
    \E t \in Threads :
        \/ Lock(t)
        \/ PrebuildBase(t)
        \/ ScatterBase(t)
        \/ GatherBase(t)
        \/ GatherForwardOnlyBase(t)
        \/ Cleanup(t)
        \/ Reset(t)

SpecLive == Init /\ [][NextLive]_vars /\ WF_vars(\E t \in Threads : Lock(t))

(***************************************************************************)
(* The program cache under every kind of variation: the callers of a run   *)
(* use two camera setups that differ in one member or in the padding.      *)
(***************************************************************************)
PrebuildAny(t) == PrebuildWith(t, Setups)
GatherForwardOnlyTwo(t) == GatherForwardOnlyWith(t, TwoSetups, {})

NextCache ==
    \E t \in Threads :
        \/ Lock(t)
        \/ PrebuildAny(t)
        \/ GatherForwardOnlyTwo(t)
        \/ Cleanup(t)

InitCache == InitState /\ varied \in Variations /\ gpu = GpuIdle

SpecCache == InitCache /\ [][NextCache]_vars

(***************************************************************************)
(* The scatter depth pass alone.  The host is inside libwarp_scatter and   *)
(* holds the lock while the device works; what the depth buffer held       *)
(* before the fill is whatever an earlier frame left there.                *)
(***************************************************************************)
InitDepth ==
    /\ libwarp_state = Ptr([InitLambda(GoodInit).st EXCEPT
                                   !.tile_size = <<TILE_SIZE_X, TILE_SIZE_Y>>])
    /\ did_init = TRUE
    /\ libwarp_lock = 1
    /\ pc = [t \in Threads |-> IF t = 1 THEN "locked" ELSE "idle"]
    /\ crashed = FALSE
    /\ faults = 0
    /\ varied = "screen_width"
    /\ call = [op |-> "none", cs |-> BaseSetup, status |-> "ret",
               ret |-> LIBWARP_SUCCESS, init_ran |-> FALSE, compiles |-> 0,
               lookups |-> <<>>, wraps |-> 0, dispatched |-> <<>>, held |-> {},
               berr |-> LIBWARP_SUCCESS, env |-> GoodEnv, cache_before |-> <<>>,
               tex |-> NULL,
               before |-> [op |-> "none", cs |-> BaseSetup, ok |-> TRUE]]
    /\ \E old \in {Plus1, Minus1, clear_depth} :
          gpu = [GpuIdle EXCEPT !.phase = "fill",
                                !.depth_buffer = [c \in Cells |-> as_uint32(old)]]

NextDepth == Fill \/ \E global_id \in GlobalIds : WorkItem(global_id)

SpecDepth == InitDepth /\ [][NextDepth]_vars

(***************************************************************************)
(* The host while one of its dispatches is on the device: thread 1 is in   *)
(* an entry point and holds the lock until the dispatch has completed.     *)
(***************************************************************************)
HostDispatching ==
    /\ libwarp_state = Ptr([InitLambda(GoodInit).st EXCEPT
                                   !.tile_size = <<TILE_SIZE_X, TILE_SIZE_Y>>])
    /\ did_init = TRUE
    /\ libwarp_lock = 1
    /\ pc = [t \in Threads |-> IF t = 1 THEN "locked" ELSE "idle"]
    /\ crashed = FALSE
    /\ faults = 0
    /\ varied = "screen_width"
    /\ call = [op |-> "none", cs |-> BaseSetup, status |-> "ret",
               ret |-> LIBWARP_SUCCESS, init_ran |-> FALSE, compiles |-> 0,
               lookups |-> <<>>, wraps |-> 0, dispatched |-> <<>>, held |-> {},
               berr |-> LIBWARP_SUCCESS, env |-> GoodEnv, cache_before |-> <<>>,
               tex |-> NULL,
               before |-> [op |-> "none", cs |-> BaseSetup, ok |-> TRUE]]

(***************************************************************************)
(* The color pass of one scatter: the depth pass before it has completed   *)
(* on the same images, so every work-item scatters as it did there.        *)
(***************************************************************************)
InScreenIds == {id \in GlobalIds : ~screen_check(id)}

\* what scatter() gives here: one destination many pixels share, or none
ColorScatterResults ==
    [coord : {<<0, 0>>, <<LIBWARP_SCREEN_WIDTH, 0>>}, linear_depth : LinearDepths]

InitColor ==
    /\ HostDispatching
    /\ \E results \in [InScreenIds -> ColorScatterResults] :
          LET scattered == [id \in GlobalIds |->
                               IF id \in InScreenIds THEN Ptr(results[id]) ELSE NULL]
          IN gpu = [phase |-> "color",
                    depth_buffer |-> RunDepthPass(GpuIdle.depth_buffer, GlobalIds,
                                                  scattered),
                    done |-> {},
                    scattered |-> scattered,
                    img_out_color |-> PreviousOutput]

NextColor == \E global_id \in GlobalIds : ColorWorkItem(global_id)

SpecColor == InitColor /\ [][NextColor]_vars

(***************************************************************************)
(* The fixup of an output image in which any of the pixels may have been   *)
(* left not written; the channels are multiples of 8, so that the averages *)
(* taken here are exact.                                                   *)
(***************************************************************************)
WarpedColor(p) == Color(8 * (p[1] + 1), 8 * (p[2] + 1), 16, 1)

InitFixup ==
    /\ HostDispatching
    /\ \E written \in SUBSET Pixels :
          LET warp_img == [p \in Pixels |->
                              IF p \in written THEN WarpedColor(p)
                              ELSE [WarpedColor(p) EXCEPT !.w = 0]]
          IN gpu = [phase |-> "fixup", warp_img |-> warp_img,
                    img_before |-> warp_img, done |-> {}]

NextFixup == \E global_id \in GlobalIds : FixupWorkItem(global_id)

SpecFixup == InitFixup /\ [][NextFixup]_vars

(***************************************************************************)
(* One dispatch of the bidirectional gather over images that are uniform:  *)
(* every work-item finds the same samples.  Errors lie on both sides of    *)
(* the threshold and on it; scene depths are normalized depths that        *)
(* linearize to about 2, 9 and 50.                                         *)
(***************************************************************************)
ScreenSpaceErrors == {0, 300, 625, 900}
SceneDepths == {500, 900, 990}
GatherSamples ==
    [err_fwd : ScreenSpaceErrors, err_bwd : ScreenSpaceErrors,
     img_depth_prev_at_p_fwd : SceneDepths, img_depth_at_p_bwd : SceneDepths,
     depth_fwd : {0}, depth_bwd : {0},
     img_depth_at_p_fwd_motion : {500, 900},
     motion_depth_backward_at_p_fwd_motion : {0},
     img_depth_prev_at_p_bwd_motion : {500, 900},
     motion_depth_forward_at_p_bwd_motion : {0},
     delta : {0, 500}]

InitGather ==
    /\ HostDispatching
    /\ \E samples \in GatherSamples :
          gpu = [phase |-> "gather", samples |-> samples,
                 written |-> [p \in Pixels |-> <<>>], done |-> {}]

NextGather == \E global_id \in GlobalIds : GatherWorkItem(global_id)

SpecGather == InitGather /\ [][NextGather]_vars

(***************************************************************************)
(* Motion vector encodings.  A 3D motion component is a whole number of    *)
(* millionths; the 32 bits of an encoded 3D vector are the three sign bits *)
(* and the 29 magnitude bits, kept apart because they do not fit one       *)
(* integer of the checker.  A decoded component keeps the sign factor and  *)
(* the magnitude apart as well: a float of magnitude zero still has a      *)
(* sign.  A 2D motion component is a whole number of halves of 1/32767,    *)
(* which is what the decoded lanes are multiples of.                       *)
(***************************************************************************)
Micro == 1000 * 1000
range == 64 * Micro

\* 65^(2^b / 1024) for b = 0..10, in millionths: exp2(2^b * log2(65) / 1024)
exp2_steps ==
    <<1004085, 1008186, 1016440, 1033150, 1067399, 1139341,
      1298097, 1685055, 2839412, 8062258, 65000000>>

\* a * c / 10^6 for a, c in millionths, without leaving 32 bits
micro_mul(a, c) ==
    LET ah == a \div 1000
        al == a % 1000
        ch == c \div 1000
        cl == c % 1000
    IN ah * ch + (ah * cl + al * ch + (al * cl) \div 1000) \div 1000

\* exp2(k * log2(65) / 1024), in millionths, for k in 0..1024
RECURSIVE exp2_1024(_, _, _)
exp2_1024(k, b, acc) ==
    IF b > Len(exp2_steps) THEN acc
    ELSE exp2_1024(k, b + 1,
                   IF (k \div (2 ^ (b - 1))) % 2 = 1
                   THEN micro_mul(acc, exp2_steps[b]) ELSE acc)

\* (float)q * log2(65) / levels, then exp2
exp2_adjusted(q, levels) == exp2_1024(q * (1024 \div levels), 1, Micro)

\* (uint)(log2(x) * levels / log2(65)) for x in 1..65: the number of whole
\* levels below x, found bit by bit from the highest
RECURSIVE log2_scaled(_, _, _, _)
log2_scaled(x, levels, bit, q) ==
    IF bit = 0 THEN q
    ELSE log2_scaled(x, levels, bit \div 2,
                     IF q + bit <= levels /\ exp2_adjusted(q + bit, levels) <= x
                     THEN q + bit ELSE q)

Abs(v) == IF v < 0 THEN 0 - v ELSE v
Clamp(v, lo, hi) == IF v < lo THEN lo ELSE IF v > hi THEN hi ELSE v
Levels3D == <<1024, 512, 1024>>

encode_3d_motion(motion) ==
    LET cmotion == [i \in 1..3 |->
                       log2_scaled(Clamp(Abs(motion[i]), 0, range) + Micro,
                                   Levels3D[i], Levels3D[i], 0)]
        ui_cmotion == [i \in 1..3 |-> Clamp(cmotion[i], 0, Levels3D[i] - 1)]
    IN [signs |-> (IF motion[1] < 0 THEN 4 ELSE 0)
                  + (IF motion[2] < 0 THEN 2 ELSE 0)
                  + (IF motion[3] < 0 THEN 1 ELSE 0),
        bits |-> ui_cmotion[1] * (2 ^ 19) + ui_cmotion[2] * (2 ^ 10)
                 + ui_cmotion[3]]

signs_lookup ==
    <<<<1, 1, 1>>, <<1, 1, -1>>, <<1, -1, 1>>, <<1, -1, -1>>,
      <<-1, 1, 1>>, <<-1, 1, -1>>, <<-1, -1, 1>>, <<-1, -1, -1>>>>

decode_3d_motion_y_as_x(encoded_motion) ==
    LET signs == signs_lookup[encoded_motion.signs + 1]
        shifted_motion == <<(encoded_motion.bits \div (2 ^ 19)) % 1024,
                            (encoded_motion.bits \div (2 ^ 10)) % 512,
                            encoded_motion.bits % 1024>>
    IN [i \in 1..3 |->
           [sign |-> signs[i],
            abs |-> exp2_adjusted(shifted_motion[i], 1024) - Micro]]

decode_3d_motion(encoded_motion) ==
    LET signs == signs_lookup[encoded_motion.signs + 1]
        shifted_motion == <<(encoded_motion.bits \div (2 ^ 19)) % 1024,
                            (encoded_motion.bits \div (2 ^ 10)) % 512,
                            encoded_motion.bits % 1024>>
    IN [i \in 1..3 |->
           [sign |-> signs[i],
            abs |-> exp2_adjusted(shifted_motion[i], Levels3D[i]) - Micro]]

\* conversion of a float to a signed integer: the fraction is dropped
truncated(num, den) ==
    IF num < 0 THEN 0 - ((0 - num) \div den) ELSE num \div den

short_bits(v) == (v + 2 ^ 16) % (2 ^ 16)
short_value(b) == IF b >= 2 ^ 15 THEN b - 2 ^ 16 ELSE b

\* the unit of a 2D motion component is 1 / Unit2D
Unit2D == 2 * 32767

encode_2d_motion(motion) ==
    LET cmotion == [i \in 1..2 |->
                       truncated(Clamp(motion[i] * 32767,
                                       0 - 32767 * Unit2D, 32767 * Unit2D),
                                 Unit2D)]
    IN [lo |-> short_bits(cmotion[1]), hi |-> short_bits(cmotion[2])]

\* both 16 bit lanes as signed normalized values, the low lane first
unpack_snorm_2x16(encoded_motion) ==
    <<Clamp(truncated(short_value(encoded_motion.lo) * Unit2D, 32767),
            0 - Unit2D, Unit2D),
      Clamp(truncated(short_value(encoded_motion.hi) * Unit2D, 32767),
            0 - Unit2D, Unit2D)>>

decode_2d_motion_unhalved(encoded_motion) ==
    unpack_snorm_2x16(encoded_motion)

decode_2d_motion(encoded_motion) ==
    LET unpacked == unpack_snorm_2x16(encoded_motion)
    IN <<truncated(unpacked[1], 2), truncated(unpacked[2], 2)>>

EncodeMotion3D ==
    /\ gpu.phase = "rendered"
    /\ gpu.kind = "3d"
    /\ gpu' = [gpu EXCEPT !.phase = "encoded",
                          !.encoded = encode_3d_motion(gpu.motion)]
    /\ UNCHANGED hostvars

DecodeMotion3D ==
    /\ gpu.phase = "encoded"
    /\ gpu.kind = "3d"
    /\ gpu' = [gpu EXCEPT !.phase = "decoded",
                          !.decoded = decode_3d_motion(gpu.encoded)]
    /\ UNCHANGED hostvars

EncodeMotion2D ==
    /\ gpu.phase = "rendered"
    /\ gpu.kind = "2d"
    /\ gpu' = [gpu EXCEPT !.phase = "encoded",
                          !.encoded = encode_2d_motion(gpu.motion)]
    /\ UNCHANGED hostvars

DecodeMotion2D ==
    /\ gpu.phase = "encoded"
    /\ gpu.kind = "2d"
    /\ gpu' = [gpu EXCEPT !.phase = "decoded",
                          !.decoded = decode_2d_motion(gpu.encoded)]
    /\ UNCHANGED hostvars

(***************************************************************************)
(* The motion images: the renderer encodes the motion of a fragment, a     *)
(* kernel decodes it.  3D components are zero, below the first level, in   *)
(* the middle of the range, in its last and widest level and on its end,   *)
(* with both signs; 2D components are zero, below one step, odd and even   *)
(* multiples and both ends.                                                *)
(***************************************************************************)
MotionComponents3D ==
    {0, 1000, 0 - 1000, Micro, 0 - 20 * Micro, range - 10000, 0 - range}
MotionComponents2D ==
    {0, 1, 0 - 1, 3, 32767, 0 - 20000, Unit2D, 0 - Unit2D}

InitMotion ==
    /\ HostDispatching
    /\ \/ \E x, y, z \in MotionComponents3D :
             gpu = [phase |-> "rendered", kind |-> "3d", motion |-> <<x, y, z>>,
                    encoded |-> NULL, decoded |-> NULL]
       \/ \E x, y \in MotionComponents2D :
             gpu = [phase |-> "rendered", kind |-> "2d", motion |-> <<x, y>>,
                    encoded |-> NULL, decoded |-> NULL]

NextMotion ==
    \/ EncodeMotion3D
    \/ DecodeMotion3D
    \/ EncodeMotion2D
    \/ DecodeMotion2D

SpecMotion == InitMotion /\ [][NextMotion]_vars

(***************************************************************************)
(* warp_camera and scatter(), for the program of BaseSetup.  Lengths,      *)
(* depths and screen positions are fixed-point numbers in thousandths.     *)
(* The origin convention is the macro the program is compiled with.        *)
(***************************************************************************)
OriginConventions == {"SCREEN_ORIGIN_LEFT_BOTTOM", "SCREEN_ORIGIN_LEFT_TOP"}

screen_size == <<LIBWARP_SCREEN_WIDTH * 1000, LIBWARP_SCREEN_HEIGHT * 1000>>
inv_screen_size == <<fdiv(1000, screen_size[1]), fdiv(1000, screen_size[2])>>
aspect_ratio == fdiv(screen_size[1], screen_size[2])
\* tan(deg_to_rad(LIBWARP_SCREEN_FOV) * 0.5f) for the 72 degrees of BaseSetup
tan_half_fov == 727
right_vec == fmul(tan_half_fov, aspect_ratio)
up_vec(origin) ==
    IF origin = "SCREEN_ORIGIN_LEFT_BOTTOM" THEN tan_half_fov ELSE 0 - tan_half_fov

\* warp_camera::reconstruct_position(coord, linear_depth)
reconstruct_position(origin, coord, linear_depth) ==
    LET vec == <<right_vec, up_vec(origin)>>
        ce_term_1 == [i \in 1..2 |-> fmul(inv_screen_size[i], vec[i])]
        ce_term_2 == [i \in 1..2 |-> 2 * ce_term_1[i]]
        ce_term_3 == [i \in 1..2 |-> ce_term_1[i] - vec[i]]
    IN <<fmul(coord[1] * ce_term_2[1] + ce_term_3[1], linear_depth),
         fmul(coord[2] * ce_term_2[2] + ce_term_3[2], linear_depth),
         0 - linear_depth>>

\* warp_camera::reproject_position(position)
reproject_position_no_offset(origin, position) ==
    LET vec == <<right_vec, up_vec(origin)>>
        ce_term == [i \in 1..2 |-> fdiv(1000, vec[i])]
        proj_dst_coord == [i \in 1..2 |->
                              fdiv(fmul(position[i], ce_term[i]), 0 - position[3])]
    IN <<fmul(fmul(proj_dst_coord[1], 500), screen_size[1]),
         fmul(fmul(proj_dst_coord[2], 500), screen_size[2])>>
reproject_position(origin, position) ==
    LET vec == <<right_vec, up_vec(origin)>>
        ce_term == [i \in 1..2 |-> fdiv(1000, vec[i])]
        proj_dst_coord == [i \in 1..2 |->
                              fdiv(fmul(position[i], ce_term[i]), 0 - position[3])]
    IN <<fmul(fmul(proj_dst_coord[1], 500) + 500, screen_size[1]),
         fmul(fmul(proj_dst_coord[2], 500) + 500, screen_size[2])>>

\* a decoded 3D motion in thousandths
motion_in_thousandths(motion) ==
    [i \in 1..3 |-> motion[i].sign * (motion[i].abs \div 1000)]

\* the conversion of a float to uint: the whole part of a value that is not
\* negative; for a negative value the language leaves the result open, and
\* devices give zero or a value beyond every screen
HugeUint == LIBWARP_SCREEN_WIDTH + LIBWARP_SCREEN_HEIGHT
uint_of_float(v) == IF v >= 0 THEN {v \div 1000} ELSE {0, HugeUint}

\* the first statements of scatter(): the position of the pixel, advanced
ReconstructPosition ==
    /\ gpu.phase = "reconstruct"
    /\ LET linear_depth == linearize_depth(DEFAULT_DEPTH_TYPE, gpu.depth)
       IN gpu' = [gpu EXCEPT !.phase = "advance",
                             !.linear_depth = linear_depth,
                             !.position = reconstruct_position(gpu.origin, gpu.coord,
                                                               linear_depth)]
    /\ UNCHANGED hostvars

AdvancePosition ==
    /\ gpu.phase = "advance"
    /\ LET motion == motion_in_thousandths(decode_3d_motion(gpu.motion))
       IN gpu' = [gpu EXCEPT !.phase = "reproject",
                             !.new_pos = [i \in 1..3 |->
                                             gpu.position[i] + fmul(gpu.delta, motion[i])]]
    /\ UNCHANGED hostvars

\* .coord = warp_camera::reproject_position(new_pos), converted to uint2
ReprojectPosition ==
    /\ gpu.phase = "reproject"
    /\ LET projected == reproject_position(gpu.origin, gpu.new_pos)
       IN \E x \in uint_of_float(projected[1]), y \in uint_of_float(projected[2]) :
             gpu' = [gpu EXCEPT !.phase = "scattered",
                                !.projected = projected,
                                !.scattered = <<x, y>>]
    /\ UNCHANGED hostvars

(***************************************************************************)
(* scatter() of one source pixel: every pixel of the screen, scene depths  *)
(* from the near plane to the far half of the range, no motion and a       *)
(* motion of one unit along x in both directions.                          *)
(***************************************************************************)
CameraDepths == {0, 500, 900, 990}
CameraMotions == {<<0, 0, 0>>, <<Micro, 0, 0>>, <<0 - Micro, 0, 0>>}
CameraDeltas == {0, 500, 1000}

InitCamera ==
    /\ HostDispatching
    /\ \E origin \in OriginConventions, coord \in Pixels, depth \in CameraDepths,
          motion \in CameraMotions, delta \in CameraDeltas :
          gpu = [phase |-> "reconstruct", origin |-> origin, coord |-> coord,
                 depth |-> depth, motion |-> encode_3d_motion(motion),
                 moved |-> motion # <<0, 0, 0>> /\ delta # 0,
                 delta |-> delta, linear_depth |-> 0, position |-> <<0, 0, 0>>,
                 new_pos |-> <<0, 0, 0>>, projected |-> <<0, 0>>,
                 scattered |-> <<0, 0>>]

NextCamera == ReconstructPosition \/ AdvancePosition \/ ReprojectPosition

SpecCamera == InitCamera /\ [][NextCamera]_vars

(***************************************************************************)
(* The two dispatches of one libwarp_scatter on the device.  gpu.host is   *)
(* the statement the host thread is at: the fill of the depth buffer, the  *)
(* dispatch of the depth pass, the dispatch of the color pass, the release *)
(* of the images.  Once a kernel is dispatched its work-items run in any   *)
(* order, and the dispatch returns to the host as wait_until_completion    *)
(* says.                                                                   *)
(***************************************************************************)
\* dev_queue->execute_with_parameters(kernel, exec_params) returns
execute_returns(done) == wait_until_completion => done = GlobalIds

StageFill ==
    /\ gpu.phase = "stages" /\ gpu.host = "fill"
    /\ gpu' = [gpu EXCEPT !.host = "depth_pass",
                          !.depth_buffer = [c \in Cells |-> as_uint32(clear_depth)]]
    /\ UNCHANGED hostvars

StageDepthWorkItem(global_id) ==
    /\ gpu.phase = "stages" /\ gpu.host # "fill"
    /\ global_id \notin gpu.depth_done
    /\ gpu' = [gpu EXCEPT
                  !.depth_buffer =
                      IF gpu.scattered[global_id] = NULL THEN @
                      ELSE libwarp_warp_scatter_depth(@, global_id,
                                                      Deref(gpu.scattered[global_id])),
                  !.depth_done = @ \cup {global_id}]
    /\ UNCHANGED hostvars

\* run_warp_kernel<KERNEL_SCATTER_DEPTH_PASS> returns, the color pass is
\* dispatched
StageDepthReturns ==
    /\ gpu.phase = "stages" /\ gpu.host = "depth_pass"
    /\ execute_returns(gpu.depth_done)
    /\ gpu' = [gpu EXCEPT !.host = "color_pass"]
    /\ UNCHANGED hostvars

StageColorWorkItem(global_id) ==
    /\ gpu.phase = "stages" /\ gpu.host \in {"color_pass", "release"}
    /\ global_id \notin gpu.color_done
    /\ gpu' = [gpu EXCEPT
                  !.img_out_color =
                      IF gpu.scattered[global_id] = NULL THEN @
                      ELSE libwarp_warp_scatter_color(@, gpu.depth_buffer, global_id,
                                                      Deref(gpu.scattered[global_id])),
                  !.color_done = @ \cup {global_id}]
    /\ UNCHANGED hostvars

\* run_warp_kernel<KERNEL_SCATTER_COLOR_DEPTH_TEST> returns
StageColorReturns ==
    /\ gpu.phase = "stages" /\ gpu.host = "color_pass"
    /\ execute_returns(gpu.color_done)
    /\ gpu' = [gpu EXCEPT !.host = "release"]
    /\ UNCHANGED hostvars

\* what scatter() gives here: the one destination, nearer or farther, or a
\* destination beyond the right edge
StageScatterResults ==
    {[coord |-> <<0, 0>>, linear_depth |-> Plus1],
     [coord |-> <<0, 0>>, linear_depth |-> Plus5],
     [coord |-> <<LIBWARP_SCREEN_WIDTH, 0>>, linear_depth |-> Plus1]}

InitStages ==
    /\ HostDispatching
    /\ \E results \in [InScreenIds -> StageScatterResults] :
          gpu = [phase |-> "stages", host |-> "fill",
                 depth_buffer |-> [c \in Cells |-> as_uint32(Plus1)],
                 scattered |-> [id \in GlobalIds |->
                                   IF id \in InScreenIds THEN Ptr(results[id])
                                   ELSE NULL],
                 depth_done |-> {}, color_done |-> {},
                 img_out_color |-> PreviousOutput]

NextStages ==
    \/ StageFill
    \/ \E global_id \in GlobalIds : StageDepthWorkItem(global_id)
    \/ StageDepthReturns
    \/ \E global_id \in GlobalIds : StageColorWorkItem(global_id)
    \/ StageColorReturns

SpecStages == InitStages /\ [][NextStages]_vars

(***************************************************************************)
(* The screen-space error of a search branch in the two gather kernels.    *)
(* Screen positions and decoded 2D motions are whole numbers of 10^-5 of   *)
(* the screen, delta is in thousandths, and a squared distance is in units *)
(* of 10^-10 like epsilon_1_sq.  The error is kept as its two summands:    *)
(* the squared distance and the number of 1.0e10f penalties, since the sum *)
(* of the two floats is at least 1.0e10f whenever the penalty is there.    *)
(***************************************************************************)
ScreenUnit == 100000
\* (float2(global_id.xy) + 0.5f) * warp_camera::inv_screen_size
pixel_center(global_id) ==
    <<((2 * global_id[1] + 1) * ScreenUnit) \div (2 * LIBWARP_SCREEN_WIDTH),
      ((2 * global_id[2] + 1) * ScreenUnit) \div (2 * LIBWARP_SCREEN_HEIGHT)>>
\* float2::dot(): the vector's dot product with itself
dot(v) == v[1] * v[1] + v[2] * v[2]
\* (p < 0.0f).any() || (p > 1.0f).any() ? 1.0e10f : 0.0f
no_penalty(p) == 0
out_of_bound_penalty(p) ==
    IF p[1] < 0 \/ p[2] < 0 \/ p[1] > ScreenUnit \/ p[2] > ScreenUnit THEN 1 ELSE 0
\* (p + weight * motion - p_init).dot() + penalty
screen_space_error(p, weight, motion, p_init) ==
    [dist |-> dot(<<p[1] + fmul(weight, motion[1]) - p_init[1],
                    p[2] + fmul(weight, motion[2]) - p_init[2]>>),
     penalty |-> out_of_bound_penalty(p)]
\* err < bound, for a bound below 1.0e10f
error_less(err, bound) == err.penalty = 0 /\ err.dist < bound

\* err_fwd / err_bwd of the branch: the weight is delta for the forward
\* branch and 1.0f - delta for the backward one
ComputeError ==
    /\ gpu.phase = "search" /\ gpu.step = "found"
    /\ LET weight == IF gpu.branch = "fwd" THEN gpu.delta ELSE 1000 - gpu.delta
       IN gpu' = [gpu EXCEPT
                     !.step = "error",
                     !.err = screen_space_error(gpu.p, weight, gpu.motion,
                                                pixel_center(gpu.coord))]
    /\ UNCHANGED hostvars

\* libwarp_warp_gather: fwd_valid = (err_fwd < epsilon_1_sq), bwd_valid alike;
\* libwarp_warp_gather_forward: if (err_fwd >= epsilon_1_sq) blur, else sample
Classify ==
    /\ gpu.phase = "search" /\ gpu.step = "error"
    /\ gpu' = [gpu EXCEPT
                  !.step = "classified",
                  !.valid = IF gpu.kernel = KERNEL_GATHER_BIDIRECTIONAL
                            THEN error_less(gpu.err, epsilon_1_sq)
                            ELSE IF ~error_less(gpu.err, epsilon_1_sq) THEN FALSE
                            ELSE TRUE]
    /\ UNCHANGED hostvars

\* decoded motions reach half the screen; the search ends at the place the
\* motion points back from, or next to it
SearchMotions == {<<0, 0>>, <<50000, 0>>, <<0 - 50000, 0>>, <<0, 50000>>}
SearchOffsets ==
    {<<0, 0>>, <<24, 0>>, <<25, 0>>, <<15, 20>>, <<0, 0 - 24>>, <<0 - 1, 0>>,
     <<20000, 0>>}
SearchDeltas == {0, 500, 1000}

InitSearch ==
    /\ HostDispatching
    /\ \E kb \in {<<KERNEL_GATHER_FORWARD_ONLY, "fwd">>,
                  <<KERNEL_GATHER_BIDIRECTIONAL, "fwd">>,
                  <<KERNEL_GATHER_BIDIRECTIONAL, "bwd">>},
          coord \in Pixels, delta \in SearchDeltas,
          motion \in SearchMotions, offset \in SearchOffsets :
          LET weight == IF kb[2] = "fwd" THEN delta ELSE 1000 - delta
              p_init == pixel_center(coord)
          IN gpu = [phase |-> "search", step |-> "found",
                    kernel |-> kb[1], branch |-> kb[2],
                    coord |-> coord, delta |-> delta, motion |-> motion,
                    p |-> <<p_init[1] - fmul(weight, motion[1]) + offset[1],
                            p_init[2] - fmul(weight, motion[2]) + offset[2]>>,
                    err |-> [dist |-> 0, penalty |-> 0],
                    valid |-> FALSE]

NextSearch == ComputeError \/ Classify

SpecSearch == InitSearch /\ [][NextSearch]_vars

(***************************************************************************)
(* What the work-items of a dispatch touch.  Each of the ten kernels of    *)
(* the program is dispatched over the rounded-up grid; an access is the    *)
(* kind, the kernel parameter and the coordinate.  For a kernel whose      *)
(* further accesses depend on what it reads, the accesses listed are those *)
(* every work-item that gets past its first statement makes.               *)
(***************************************************************************)
Access(kind, object, coord) == [kind |-> kind, object |-> object, coord |-> coord]

\* the reads and writes at the top of each kernel body
BodyAccesses(kernel_idx, global_id) ==
    CASE kernel_idx = KERNEL_SCATTER_DEPTH_PASS ->
            {Access("read", "img_depth", global_id),
             Access("read", "img_motion", global_id)}
      [] kernel_idx = KERNEL_SCATTER_COLOR_DEPTH_TEST ->
            {Access("read", "img_depth", global_id),
             Access("read", "img_motion", global_id)}
      [] kernel_idx = KERNEL_SCATTER_CLEAR ->
            {Access("write", "img", global_id)}
      [] kernel_idx = KERNEL_SCATTER_FIXUP ->
            {Access("read", "warp_img", global_id)}
      [] kernel_idx = KERNEL_GATHER_FORWARD_ONLY ->
            {Access("read", "img_motion", global_id),
             Access("write", "img_out_color", global_id)}
      [] kernel_idx = KERNEL_GATHER_BIDIRECTIONAL ->
            {Access("read", "img_motion_backward", global_id),
             Access("read", "img_motion_forward", global_id),
             Access("write", "img_out_color", global_id)}
      [] kernel_idx = KERNEL_DEBUG_DEPTH ->
            {Access("read", "depth_in", global_id),
             Access("write", "output", global_id)}
      [] kernel_idx = KERNEL_DEBUG_MOTION_DEPTH ->
            {Access("read", "motion_depth_in", global_id),
             Access("write", "output", global_id)}
      [] OTHER ->
            {Access("read", "motion_in", global_id),
             Access("write", "output", global_id)}

\* the kernels whose body begins with screen_check()
HasScreenCheck(kernel_idx) ==
    kernel_idx \in {KERNEL_SCATTER_DEPTH_PASS, KERNEL_SCATTER_COLOR_DEPTH_TEST,
                    KERNEL_SCATTER_CLEAR, KERNEL_SCATTER_FIXUP,
                    KERNEL_GATHER_FORWARD_ONLY, KERNEL_GATHER_BIDIRECTIONAL}

\* what one work-item of the kernel touches
KernelAccesses(kernel_idx, global_id) ==
    IF HasScreenCheck(kernel_idx) /\ screen_check(global_id) THEN {}
    ELSE BodyAccesses(kernel_idx, global_id)

AccessWorkItem(global_id) ==
    /\ gpu.phase = "access"
    /\ global_id \notin gpu.done
    /\ gpu' = [gpu EXCEPT !.done = @ \cup {global_id},
                          !.accesses[global_id] =
                              KernelAccesses(gpu.kernel, global_id)]
    /\ UNCHANGED hostvars

InitAccess ==
    /\ HostDispatching
    /\ \E kernel_idx \in 0..(warp_kernel_count - 1) :
          gpu = [phase |-> "access", kernel |-> kernel_idx, done |-> {},
                 accesses |-> [id \in GlobalIds |-> {}]]

NextAccess == \E global_id \in GlobalIds : AccessWorkItem(global_id)

SpecAccess == InitAccess /\ [][NextAccess]_vars

(***************************************************************************)
(* Gather calls frame after frame.  The callers pass the textures of one   *)
(* of three frames: a frame, the frame in which the two texture sets have  *)
(* changed roles, and a frame rendered into textures not seen before, with *)
(* the first frame's current textures as its previous ones.                *)
(***************************************************************************)
FrameTextures ==
    {[color_current |-> 1, depth_current |-> 2, color_prev |-> 5, depth_prev |-> 6,
      motion_forward |-> 3, motion_backward |-> 7,
      motion_depth_forward |-> 8, motion_depth_backward |-> 9, output |-> 4],
     [color_current |-> 5, depth_current |-> 6, color_prev |-> 1, depth_prev |-> 2,
      motion_forward |-> 7, motion_backward |-> 3,
      motion_depth_forward |-> 9, motion_depth_backward |-> 8, output |-> 4],
     [color_current |-> 10, depth_current |-> 11, color_prev |-> 1, depth_prev |-> 2,
      motion_forward |-> 3, motion_backward |-> 7,
      motion_depth_forward |-> 8, motion_depth_backward |-> 9, output |-> 12]}

GatherFrame(t) == GatherTextured(t, {BaseSetup}, FrameTextures, GatherFails)

NextFrames ==
    \E t \in Threads :
        \/ Lock(t)
        \/ GatherFrame(t)
        \/ Cleanup(t)

SpecFrames == Init /\ [][NextFrames]_vars

(***************************************************************************)
(* scatter() followed by the depth buffer access of the depth pass or of   *)
(* the color pass, for motions that carry the pixel off the screen on      *)
(* either side or behind the camera.  capacity is the number of cells the  *)
(* buffer has: what this setup asks for, or more when an earlier, larger   *)
(* setup had it allocated.                                                 *)
(***************************************************************************)
\* depth_buffer[scattered.coord.y * LIBWARP_SCREEN_WIDTH + scattered.coord.x],
\* reached in both kernels only with both coordinates on the screen
IndexDepthBuffer ==
    /\ gpu.phase = "scattered"
    /\ gpu' = [gpu EXCEPT !.phase = "indexed",
                          !.index = IF InBounds(gpu.scattered)
                                    THEN {CellOf(gpu.scattered)} ELSE {}]
    /\ UNCHANGED hostvars

IndexDepths == {500, 990}
IndexMotions ==
    {<<0, 0, 0>>, <<Micro, 0, 0>>,
     <<20 * Micro, 0, 0>>, <<0 - 20 * Micro, 0, 0>>,
     <<0, 20 * Micro, 0>>, <<0, 0 - 20 * Micro, 0>>,
     <<0, 0, 20 * Micro>>}
IndexDeltas == {500, 1000}

InitIndex ==
    /\ HostDispatching
    /\ \E origin \in OriginConventions, coord \in Pixels, depth \in IndexDepths,
          motion \in IndexMotions, delta \in IndexDeltas,
          kernel_idx \in {KERNEL_SCATTER_DEPTH_PASS, KERNEL_SCATTER_COLOR_DEPTH_TEST},
          size \in {SizeofFloat * LIBWARP_SCREEN_WIDTH * LIBWARP_SCREEN_HEIGHT,
                    SizeofFloat * (LIBWARP_SCREEN_WIDTH + 1) * LIBWARP_SCREEN_HEIGHT} :
          gpu = [phase |-> "reconstruct", origin |-> origin, coord |-> coord,
                 depth |-> depth, motion |-> encode_3d_motion(motion),
                 moved |-> TRUE,
                 delta |-> delta, linear_depth |-> 0, position |-> <<0, 0, 0>>,
                 new_pos |-> <<0, 0, 0>>, projected |-> <<0, 0>>,
                 scattered |-> <<0, 0>>,
                 kernel |-> kernel_idx, capacity |-> size \div SizeofFloat,
                 index |-> {}]

NextIndex ==
    ReconstructPosition \/ AdvancePosition \/ ReprojectPosition \/ IndexDepthBuffer

SpecIndex == InitIndex /\ [][NextIndex]_vars

(***************************************************************************)
(* One work-item of libwarp_warp_gather_forward, statement by statement.   *)
(* Positions and motions are in the screen units of the search above; the  *)
(* motion image is sampled at the texel a position falls into, clamped to  *)
(* the image.  Colors are kept as the expressions the kernel builds them   *)
(* from.                                                                   *)
(***************************************************************************)
gather_search_iterations == 6
TAP_COUNT == 21

\* img_motion.read(p), decoded: the motion stored in the texel p falls into
texel_of(p) ==
    LET x == (p[1] * LIBWARP_SCREEN_WIDTH) \div ScreenUnit
        y == (p[2] * LIBWARP_SCREEN_HEIGHT) \div ScreenUnit
        clamp(v, hi) == IF v < 0 THEN 0 ELSE IF v > hi THEN hi ELSE v
    IN <<clamp(x, LIBWARP_SCREEN_WIDTH - 1), clamp(y, LIBWARP_SCREEN_HEIGHT - 1)>>
img_motion_read(img_motion, p) == img_motion[texel_of(p)]

\* p_fwd = p_init - delta * motion, one iteration of the search
forward_step_accumulating(p_init, p_fwd, delta, img_motion) ==
    LET motion == img_motion_read(img_motion, p_fwd)
    IN <<p_fwd[1] - fmul(delta, motion[1]), p_fwd[2] - fmul(delta, motion[2])>>
forward_step(p_init, p_fwd, delta, img_motion) ==
    LET motion == img_motion_read(img_motion, p_fwd)
    IN <<p_init[1] - fmul(delta, motion[1]), p_init[2] - fmul(delta, motion[2])>>

\* float2::normalized(), in thousandths; the motions of the images here lie
\* along an axis, where the length is the magnitude of the component, and
\* the zero vector has no direction (its components become NaN)
normalized(v) ==
    LET len == Abs(v[1]) + Abs(v[2])
    IN IF len = 0 THEN [nan |-> TRUE, v |-> <<0, 0>>]
       ELSE [nan |-> FALSE, v |-> <<(1000 * v[1]) \div len, (1000 * v[2]) \div len>>]

\* the color the work-item ends with.  fallback_color is the list of the
\* samples added to it, each with the weight 1 / gather_search_iterations;
\* the blur is the sum of coeffs[overlap + i] * img_color.read(coord + i * dir)
\* over the TAP_COUNT taps
forward_color_sample_when_not_above(coord, p_fwd, err_fwd, motion_fwd, fallback_color) ==
    IF ~error_less(err_fwd, epsilon_1_sq) /\ ~(err_fwd.penalty = 0 /\ err_fwd.dist = epsilon_1_sq)
    THEN [kind |-> "(blur + fallback_color) * 0.5f", at |-> coord,
          dir |-> normalized(motion_fwd), taps |-> TAP_COUNT,
          fallback_color |-> fallback_color]
    ELSE [kind |-> "read_linear", at |-> p_fwd,
          dir |-> normalized(<<0, 0>>), taps |-> 0, fallback_color |-> <<>>]
forward_color(coord, p_fwd, err_fwd, motion_fwd, fallback_color) ==
    IF ~error_less(err_fwd, epsilon_1_sq)
    THEN [kind |-> "(blur + fallback_color) * 0.5f", at |-> coord,
          dir |-> normalized(motion_fwd), taps |-> TAP_COUNT,
          fallback_color |-> fallback_color]
    ELSE [kind |-> "read_linear", at |-> p_fwd,
          dir |-> normalized(<<0, 0>>), taps |-> 0, fallback_color |-> <<>>]

\* screen_check() at the top of the kernel
ForwardScreenCheck ==
    /\ gpu.phase = "forward" /\ gpu.step = "start"
    /\ gpu' = [gpu EXCEPT !.step = IF screen_check(gpu.coord) THEN "returned"
                                   ELSE "iterate"]
    /\ UNCHANGED hostvars

\* one pass of the loop over gather_search_iterations
ForwardIterate ==
    /\ gpu.phase = "forward" /\ gpu.step = "iterate"
    /\ gpu.i < gather_search_iterations
    /\ LET p == forward_step(gpu.p_init, gpu.p_fwd, gpu.delta, gpu.img_motion)
       IN gpu' = [gpu EXCEPT
                     !.p_fwd = p,
                     !.fallback_color =
                         Append(@, read_linear_repeat_mirrored("img_color", p)),
                     !.i = @ + 1]
    /\ UNCHANGED hostvars

\* after the loop: the error of the position found, the color chosen from
\* it, and img_out_color.write(coord, color)
ForwardWrite ==
    /\ gpu.phase = "forward" /\ gpu.step = "iterate"
    /\ gpu.i = gather_search_iterations
    /\ LET motion_fwd == img_motion_read(gpu.img_motion, gpu.p_fwd)
           err_fwd == screen_space_error(gpu.p_fwd, gpu.delta, motion_fwd, gpu.p_init)
       IN gpu' = [gpu EXCEPT
                     !.step = "returned",
                     !.err = err_fwd,
                     !.written =
                         Append(@, forward_color(gpu.coord, gpu.p_fwd, err_fwd,
                                                 motion_fwd, gpu.fallback_color))]
    /\ UNCHANGED hostvars

\* motion images: nothing moves; everything moves a fifth of the screen to
\* the left or three fifths to the right; only the right column moves; the
\* two rows move by amounts that differ by 24 units or by 25, so that the
\* search of a pixel of the lower row swings across the boundary of the rows
ForwardMotionImages ==
    {[p \in Pixels |-> <<0, 0>>],
     [p \in Pixels |-> <<0 - 20000, 0>>],
     [p \in Pixels |-> <<60000, 0>>],
     [p \in Pixels |-> IF p[1] = 1 THEN <<40000, 0>> ELSE <<0, 0>>],
     [p \in Pixels |-> IF p[2] = 1 THEN <<0, 25024>> ELSE <<0, 25000>>],
     [p \in Pixels |-> IF p[2] = 1 THEN <<0, 25025>> ELSE <<0, 25000>>]}
ForwardDeltas == {0, 500, 1000}

InitForward ==
    /\ HostDispatching
    /\ \E coord \in GlobalIds, delta \in ForwardDeltas,
          img_motion \in ForwardMotionImages :
          gpu = [phase |-> "forward", step |-> "start", coord |-> coord,
                 delta |-> delta, img_motion |-> img_motion,
                 p_init |-> pixel_center(coord), p_fwd |-> pixel_center(coord),
                 fallback_color |-> <<>>, i |-> 0,
                 err |-> [dist |-> 0, penalty |-> 0], written |-> <<>>]

NextForward == ForwardScreenCheck \/ ForwardIterate \/ ForwardWrite

SpecForward == InitForward /\ [][NextForward]_vars

(***************************************************************************)
(* The grid of a dispatch.  libwarp_build compiles the unit of a camera    *)
(* setup with the tile size of the state, run_warp_kernel then dispatches  *)
(* a kernel of that unit over the screen rounded up to whole tiles.        *)
(***************************************************************************)
\* screens below, at and above one and two tiles
GridWidths == {1, 2, 31, 32, 33, 64, 65}
GridHeights == {1, 15, 16, 17, 31, 32, 33}

\* libwarp_build: the unit of the camera setup is compiled
GridBuild ==
    /\ gpu.phase = "grid" /\ gpu.step = "build"
    /\ gpu' = [gpu EXCEPT
                  !.step = "dispatch",
                  !.unit = BuildOptions(gpu.cs, Deref(libwarp_state).tile_size)]
    /\ UNCHANGED hostvars

\* run_warp_kernel: global_work_size and local_work_size of exec_params
GridDispatch ==
    /\ gpu.phase = "grid" /\ gpu.step = "dispatch"
    /\ gpu' = [gpu EXCEPT
                  !.step = "dispatched",
                  !.global_work_size =
                      rounded_next_multiple(<<gpu.cs.screen_width, gpu.cs.screen_height>>,
                                            Deref(libwarp_state).tile_size),
                  !.local_work_size = Deref(libwarp_state).tile_size]
    /\ UNCHANGED hostvars

InitGrid ==
    /\ \E tile_size \in {DefaultTileSize, LargeTileSize} :
          libwarp_state = Ptr([InitLambda(GoodInit).st EXCEPT !.tile_size = tile_size])
    /\ did_init = TRUE
    /\ libwarp_lock = 1
    /\ pc = [t \in Threads |-> IF t = 1 THEN "locked" ELSE "idle"]
    /\ crashed = FALSE
    /\ faults = 0
    /\ varied = "screen_width"
    /\ call = [op |-> "none", cs |-> BaseSetup, status |-> "ret",
               ret |-> LIBWARP_SUCCESS, init_ran |-> FALSE, compiles |-> 0,
               lookups |-> <<>>, wraps |-> 0, dispatched |-> <<>>, held |-> {},
               berr |-> LIBWARP_SUCCESS, env |-> GoodEnv, cache_before |-> <<>>,
               tex |-> NULL,
               before |-> [op |-> "none", cs |-> BaseSetup, ok |-> TRUE]]
    /\ \E w \in GridWidths, h \in GridHeights :
          gpu = [phase |-> "grid", step |-> "build",
                 cs |-> [BaseSetup EXCEPT !.screen_width = w, !.screen_height = h],
                 unit |-> BuildOptions(BaseSetup, <<0, 0>>),
                 global_work_size |-> <<0, 0>>, local_work_size |-> <<0, 0>>]

NextGrid == GridBuild \/ GridDispatch

SpecGrid == InitGrid /\ [][NextGrid]_vars

(***************************************************************************)
(* Scatter calls for screens of different sizes, one after the other: the  *)
(* depth buffer is kept from call to call and create_buffer may fail.      *)
(***************************************************************************)
BufferSetups == {BaseSetup, VariantOf("screen_width"), VariantOf("screen_height")}
ScatterResized(t) ==
    ScatterWith(t, BufferSetups, {<<"alloc", "scatter.depth_buffer">>})

NextBuffer == \E t \in Threads : Lock(t) \/ ScatterResized(t)

SpecBuffer == Init /\ [][NextBuffer]_vars

(***************************************************************************)
(* The initialisation on devices of different capabilities: the first call *)
(* of a run finds one of them, and every call compiles with the tile size  *)
(* the initialisation left in the state.                                   *)
(***************************************************************************)
TileInitEnvs ==
    {[GoodInit EXCEPT !.ctx = Ptr([compute_type |-> compute_type]),
                      !.dev = Ptr([max_work_group_size |-> max_work_group_size,
                                   max_work_group_item_sizes |-> sizes])] :
        compute_type \in {"METAL", "HOST"},
        max_work_group_size \in {512, 1024, 2048},
        sizes \in {<<32, 31>>, <<32, 32>>, <<1024, 1024>>}}

PrebuildOnDevice(t) ==
    /\ InBody(t)
    /\ \E cs \in TwoSetups,
          env \in (IF did_init THEN {GoodEnv}
                   ELSE {[GoodEnv EXCEPT !.init = i] : i \in TileInitEnvs}) :
          \E M \in {libwarp_prebuild(Begin(t, "prebuild", cs), env.init, env.build)} :
              Finish(M, env)

NextTile == \E t \in Threads : Lock(t) \/ PrebuildOnDevice(t)

SpecTile == Init /\ [][NextTile]_vars

(***************************************************************************)
(* The word of an encoded 3D motion, bit by bit.  The word is kept as its  *)
(* top three bits (signs) and its low 29 bits (bits), as above; the        *)
(* encoder is followed from the quantized magnitudes ui_cmotion on, the    *)
(* decoder up to shifted_motion.                                           *)
(***************************************************************************)
RECURSIVE bit_or(_, _)
bit_or(a, b) ==
    IF a = 0 THEN b
    ELSE IF b = 0 THEN a
    ELSE (IF a % 2 = 1 \/ b % 2 = 1 THEN 1 ELSE 0) + 2 * bit_or(a \div 2, b \div 2)

\* (signs.x < 0.0f ? 0x80000000u : 0u) | ... | (ui_cmotion.x << 19u)
\*     | (ui_cmotion.y << 10u) | (ui_cmotion.z)
pack_3d_motion_y_shifted_by_9(signs, ui_cmotion) ==
    [signs |-> bit_or((IF signs[1] < 0 THEN 4 ELSE 0)
                          + (IF signs[2] < 0 THEN 2 ELSE 0)
                          + (IF signs[3] < 0 THEN 1 ELSE 0),
                      (ui_cmotion[1] \div (2 ^ 10)) % 8),
     bits |-> bit_or(bit_or((ui_cmotion[1] % (2 ^ 10)) * (2 ^ 19),
                            ui_cmotion[2] * (2 ^ 9)),
                     ui_cmotion[3])]
pack_3d_motion(signs, ui_cmotion) ==
    [signs |-> bit_or((IF signs[1] < 0 THEN 4 ELSE 0)
                          + (IF signs[2] < 0 THEN 2 ELSE 0)
                          + (IF signs[3] < 0 THEN 1 ELSE 0),
                      (ui_cmotion[1] \div (2 ^ 10)) % 8),
     bits |-> bit_or(bit_or((ui_cmotion[1] % (2 ^ 10)) * (2 ^ 19),
                            ui_cmotion[2] * (2 ^ 10)),
                     ui_cmotion[3])]

\* signs_lookup[encoded_motion >> 29u] and shifted_motion of the decoder
unpack_3d_motion(encoded_motion) ==
    [signs |-> signs_lookup[encoded_motion.signs + 1],
     shifted_motion |-> <<(encoded_motion.bits \div (2 ^ 19)) % 1024,
                          (encoded_motion.bits \div (2 ^ 10)) % 512,
                          encoded_motion.bits % 1024>>]

\* quantized magnitudes at the ends and in the middle of their ranges, and
\* words no encoder produces next to words it does
PackedX == {0, 1, 341, 512, 682, 1023}
PackedY == {0, 1, 170, 256, 341, 511}
PackedZ == {0, 1, 341, 682, 1023}
PackedSigns == {<<sx, sy, sz>> : sx \in {1, -1}, sy \in {1, -1}, sz \in {1, -1}}
AnyWords ==
    [signs : 0..7,
     bits : {0, 1, 2 ^ 10 - 1, 2 ^ 10, 2 ^ 19 - 1, 2 ^ 19, 2 ^ 29 - 1,
             357913941, 178956970}]

\* the last statement of encode_3d_motion
PackMotion3D ==
    /\ gpu.phase = "quantized"
    /\ gpu' = [gpu EXCEPT !.phase = "packed",
                          !.encoded = pack_3d_motion(gpu.signs, gpu.ui_cmotion)]
    /\ UNCHANGED hostvars

\* the first statements of decode_3d_motion, and its result
UnpackMotion3D ==
    /\ gpu.phase = "packed"
    /\ gpu' = [gpu EXCEPT !.phase = "unpacked",
                          !.unpacked = unpack_3d_motion(gpu.encoded),
                          !.decoded = decode_3d_motion(gpu.encoded)]
    /\ UNCHANGED hostvars

InitPacking ==
    /\ HostDispatching
    /\ \/ \E signs \in PackedSigns, x \in PackedX, y \in PackedY, z \in PackedZ :
             gpu = [phase |-> "quantized", signs |-> signs, ui_cmotion |-> <<x, y, z>>,
                    encoded |-> [signs |-> 0, bits |-> 0],
                    unpacked |-> unpack_3d_motion([signs |-> 0, bits |-> 0]),
                    decoded |-> decode_3d_motion([signs |-> 0, bits |-> 0])]
       \/ \E word \in AnyWords :
             gpu = [phase |-> "packed", signs |-> <<0, 0, 0>>,
                    ui_cmotion |-> <<0, 0, 0>>,
                    encoded |-> word,
                    unpacked |-> unpack_3d_motion([signs |-> 0, bits |-> 0]),
                    decoded |-> decode_3d_motion([signs |-> 0, bits |-> 0])]

NextPacking == PackMotion3D \/ UnpackMotion3D

SpecPacking == InitPacking /\ [][NextPacking]_vars

(***************************************************************************)
(* Properties.  call describes the entry point body that ran last: its     *)
(* arguments, the answers of its environment, what it did and how it       *)
(* ended; libwarp_state is the library state it left behind.               *)
(***************************************************************************)
BuildOps == {"prebuild", "scatter", "gather", "gather_forward_only"}
WarpOps == {"scatter", "gather", "gather_forward_only"}
Programs == CacheOf(libwarp_state)
Returned == call.status = "ret"
ZeroDim(cs) == cs.screen_width = 0 \/ cs.screen_height = 0

\* the library state exists but lacks its context, device or queue
SetupIncomplete ==
    /\ libwarp_state # NULL
    /\ \/ Deref(libwarp_state).ctx = NULL
       \/ Deref(libwarp_state).dev = NULL
       \/ Deref(libwarp_state).dev_queue = NULL

\* the requested camera setup equals a cached one member by member
CachedFieldWise ==
    \E i \in 1..Len(call.cache_before) :
        FieldsEqual(call.cache_before[i].first, call.cs)

\* the cache is what it was, with one pair for the requested setup at its end
AppendedOne ==
    /\ Len(Programs) = Len(call.cache_before) + 1
    /\ SubSeq(Programs, 1, Len(call.cache_before)) = call.cache_before
    /\ Programs[Len(Programs)].first = call.cs

\* C1: a request whose camera setup equals an already cached one in all seven
\* members, whatever the other bytes of the struct hold, compiles nothing and
\* leaves the cache as it was.
C1_FieldWiseHit ==
    (call.op \in BuildOps /\ CachedFieldWise /\ ~SetupIncomplete)
        => (call.compiles = 0 /\ Programs = call.cache_before)

\* a request that equals a cached setup in every member was compiled again
C1_FieldWiseEqualRecompiled ==
    /\ call.op \in BuildOps
    /\ CachedFieldWise
    /\ ~SetupIncomplete
    /\ Returned /\ call.ret = LIBWARP_SUCCESS
    /\ call.compiles = 1
    /\ Len(Programs) = Len(call.cache_before) + 1

\* C2, as stated: a request whose camera setup differs from every cached one
\* in some member compiles a unit and appends one pair at the end of the cache.
C2_MissAlwaysAppends ==
    (call.op \in BuildOps /\ Returned /\ ~CachedFieldWise)
        => (call.compiles = 1 /\ AppendedOne)

\* C2, amended: when such a request has non-zero screen dimensions and the
\* operation returns success, exactly one unit was compiled and exactly one
\* pair for the requested setup was appended at the end of the cache, all
\* earlier entries staying in place unchanged.
C2_MissAppendsOnSuccess ==
    (/\ call.op \in BuildOps
     /\ Returned /\ call.ret = LIBWARP_SUCCESS
     /\ ~CachedFieldWise)
        => (~ZeroDim(call.cs) /\ call.compiles = 1 /\ AppendedOne)

\* a second setup, differing in one member from the cached one, was built
C2_SecondSetupBuilt ==
    /\ call.op \in BuildOps
    /\ Returned /\ call.ret = LIBWARP_SUCCESS
    /\ ~CachedFieldWise
    /\ Len(call.cache_before) >= 1
    /\ call.cs = VariantOf(varied)

\* C3, as stated: every operation called with a zero screen width or height
\* returns LIBWARP_INVALID_SCREEN_DIM.
C3_ZeroDimAlwaysInvalid ==
    (call.op \in BuildOps /\ Returned /\ ZeroDim(call.cs))
        => call.ret = LIBWARP_INVALID_SCREEN_DIM

\* C3, amended: an operation called with a zero screen width or height
\* compiles nothing and adds nothing to the cache; when it returns and none of
\* its wrap, acquire, allocation and release steps failed, it returns
\* LIBWARP_INVALID_SCREEN_DIM.
C3_ZeroDimNeverBuilt ==
    (call.op \in BuildOps /\ ZeroDim(call.cs))
        => /\ call.compiles = 0
           /\ Programs = call.cache_before
           /\ (Returned /\ call.env.fail = NoFail)
                 => call.ret = LIBWARP_INVALID_SCREEN_DIM

\* a gather with a zero screen height came back with the cache non-empty
C3_ZeroHeightGatherRejected ==
    /\ call.op = "gather"
    /\ call.cs = ZeroHeightSetup
    /\ Returned /\ call.ret = LIBWARP_INVALID_SCREEN_DIM
    /\ call.wraps > 0
    /\ Len(call.cache_before) >= 1

\* C4: when libwarp_build gives anything but LIBWARP_SUCCESS, the cache after
\* the call is the cache before the call.
C4_NoPartialInsertion ==
    (call.op \in BuildOps /\ call.berr # LIBWARP_SUCCESS)
        => Programs = call.cache_before

\* a build failed for a missing kernel while the cache held another unit
C4_KernelMissingWithCache ==
    /\ call.op \in BuildOps
    /\ call.berr = LIBWARP_NO_KERNEL
    /\ call.compiles = 1
    /\ call.lookups # <<>>
    /\ Len(call.cache_before) >= 1

\* the code the lambda of libwarp_init ends with under these answers
SetupFailure(ienv) ==
    IF ienv.ctx = NULL THEN LIBWARP_NO_CONTEXT
    ELSE IF ienv.dev = NULL THEN LIBWARP_NO_DEVICE
    ELSE IF ienv.dev_queue = NULL THEN LIBWARP_NO_QUEUE
    ELSE LIBWARP_SUCCESS

\* C5: the operation during which initialisation could not get a context, a
\* device or a queue returns LIBWARP_NO_CONTEXT, LIBWARP_NO_DEVICE or
\* LIBWARP_NO_QUEUE, and has wrapped, compiled and dispatched nothing.
C5_SetupFailureReturned ==
    (call.init_ran /\ SetupFailure(call.env.init) # LIBWARP_SUCCESS)
        => /\ Returned
           /\ call.ret = SetupFailure(call.env.init)
           /\ call.wraps = 0
           /\ call.compiles = 0
           /\ call.dispatched = <<>>

\* initialisation ran without a context and the operation went on to compile
C5_CompiledWithoutContext ==
    /\ call.init_ran
    /\ call.env.init = NoContextInit
    /\ call.status = "crash"

\* an entry point body runs in this step
BodyStep == \E t \in Threads : pc[t] = "locked" /\ (pc'[t] = "idle" \/ crashed')

\* C6: an operation called after a failed setup, with a context, a device and
\* a queue now available, runs the setup again and succeeds.
C6_SetupRetried ==
    [][(/\ BodyStep
        /\ SetupIncomplete
        /\ call'.op \in BuildOps
        /\ call'.cs = BaseSetup
        /\ call'.env = GoodEnv)
           => (call'.init_ran /\ call'.status = "ret" /\ call'.ret = LIBWARP_SUCCESS)]_vars

\* C7: when the source does not compile, the operation returns
\* LIBWARP_COMPILATION_FAILURE and no kernel is looked up.
C7_CompilationFailureReturned ==
    (call.op \in BuildOps /\ call.compiles > 0 /\ ~call.env.build.compiles)
        => /\ Returned
           /\ call.ret = LIBWARP_COMPILATION_FAILURE
           /\ call.lookups = <<>>

\* the source did not compile and the build went on to the kernel lookup
C7_LookupOnNullProgram ==
    /\ call.op \in BuildOps
    /\ call.compiles = 1
    /\ ~call.env.build.compiles
    /\ call.status = "crash"

ResourceFailures ==
    {LIBWARP_IMAGE_WRAP_FAILURE, LIBWARP_IMAGE_ACQUIRE_FAILURE,
     LIBWARP_IMAGE_RELEASE_FAILURE, LIBWARP_DEPTH_BUFFER_FAILURE}

\* C8: a scatter, gather or forward-only gather that returns a wrap, acquire,
\* release or depth buffer failure has released every texture it acquired.
C8_AcquiredReleasedOnFailure ==
    (call.op \in WarpOps /\ Returned /\ call.ret \in ResourceFailures)
        => call.held = {}

\* a scatter returned an acquire failure with a texture still acquired
C8_ScatterLeftAcquired ==
    /\ call.op = "scatter"
    /\ Returned /\ call.ret = LIBWARP_IMAGE_ACQUIRE_FAILURE
    /\ call.held = {"scatter.color"}

\* at most one thread is inside an entry point body, and it holds the lock
MutualExclusion ==
    \A t, u \in Threads :
        pc[t] = "locked" => (libwarp_lock = t /\ (pc[u] = "locked" => u = t))

Contributions(c) ==
    {Deref(gpu.scattered[id]).linear_depth :
        id \in {i \in GlobalIds : /\ gpu.scattered[i] # NULL
                                  /\ InBounds(Deref(gpu.scattered[i]).coord)
                                  /\ CellOf(Deref(gpu.scattered[i]).coord) = c}}
FloatMin(S) == CHOOSE m \in S : \A x \in S : ~float_less(x, m)
HoldsMinimum(c) ==
    IF Contributions(c) = {} THEN gpu.depth_buffer[c] = as_uint32(clear_depth)
    ELSE as_float(gpu.depth_buffer[c]) = FloatMin(Contributions(c))

\* C10, as stated: once the depth pass has completed, every cell that source
\* pixels scattered to holds the smallest of their linear depths, and every
\* other cell holds the clear value.
C10_MinimumOfAllDepths ==
    DepthPassCompleted => \A c \in Cells : HoldsMinimum(c)

\* C10, amended: once the depth pass has completed, in whatever order the
\* work-items ran, every cell whose source pixels all had a linear depth that
\* is not negative and not above the clear value holds the smallest of these
\* depths, and every cell no pixel scattered to holds the clear value.
C10_MinimumOfOrderedDepths ==
    DepthPassCompleted
        => \A c \in Cells :
              (\A d \in Contributions(c) :
                  d.sign = 0 /\ ~float_less(clear_depth, d)) => HoldsMinimum(c)

\* two source pixels of depths 1 and 5 scattered to one cell, none to another
C10_TwoPixelsOneCell ==
    /\ DepthPassCompleted
    /\ Contributions(0) = {Plus1, Plus5}
    /\ gpu.depth_buffer[0] = as_uint32(Plus1)
    /\ Contributions(3) = {}
    /\ gpu.depth_buffer[3] = as_uint32(clear_depth)

\* the work-items whose source pixel scattered to pixel p of the output
Scatterers(p) ==
    {id \in GlobalIds : gpu.scattered[id] # NULL /\ Deref(gpu.scattered[id]).coord = p}
DepthOf(id) == Deref(gpu.scattered[id]).linear_depth
\* the depth test of the color pass: the source pixel's linear depth is less
\* than or equal to what the depth buffer holds for its destination
PassesDepthTest(id) ==
    /\ gpu.scattered[id] # NULL
    /\ InBounds(Deref(gpu.scattered[id]).coord)
    /\ ~float_less(as_float(gpu.depth_buffer[CellOf(Deref(gpu.scattered[id]).coord)]),
                   DepthOf(id))
\* pixel p is written and holds the color of a source pixel of minimal depth
HoldsNearestColor(p) ==
    /\ gpu.img_out_color[p].w = 1
    /\ \E id \in Scatterers(p) :
          /\ DepthOf(id) = FloatMin(Contributions(CellOf(p)))
          /\ gpu.img_out_color[p] = [img_color(id) EXCEPT !.w = 1]
\* a work-item that changes the output image passed the depth test
WritesOnlyWhenNearest ==
    \A id \in GlobalIds :
        (id \in gpu'.done /\ id \notin gpu.done
            /\ gpu'.img_out_color # gpu.img_out_color) => PassesDepthTest(id)

\* C11, as stated: once the color pass has completed, every output pixel that
\* at least one source pixel scattered to is marked written and holds the
\* color of a source pixel whose linear depth is the smallest among them.
C11_NearestColorOfAllDepths ==
    ColorPassCompleted
        => \A p \in Pixels : Scatterers(p) # {} => HoldsNearestColor(p)

\* C11, amended: a work-item of the color pass writes only if its linear depth
\* is at most the depth buffer's value for its destination; and once the pass
\* has completed, every output pixel whose source pixels all had a linear
\* depth that is not negative and not above the clear value is marked written
\* and holds the color of one of them of smallest depth.
C11_NearestColorOfOrderedDepths ==
    /\ [][WritesOnlyWhenNearest]_vars
    /\ [](ColorPassCompleted
            => \A p \in Pixels :
                  (/\ Scatterers(p) # {}
                   /\ \A d \in Contributions(CellOf(p)) :
                         d.sign = 0 /\ ~float_less(clear_depth, d))
                      => HoldsNearestColor(p))

\* all four source pixels scattered to one output pixel, at depths 1 and 5,
\* and the pixel holds the color of one at depth 1
C11_OccludedPixelDiscarded ==
    /\ ColorPassCompleted
    /\ Contributions(0) = {Plus1, Plus5}
    /\ DepthOf(<<1, 1>>) = Plus5
    /\ gpu.img_out_color[<<0, 0>>].w = 1
    /\ gpu.img_out_color[<<0, 0>>] # PreviousOutput[<<0, 0>>]

\* the kernels one entry point body dispatched, in order
DispatchedKernels == [i \in DOMAIN call.dispatched |-> call.dispatched[i].kernel]

\* C12: a scatter call that returns success has dispatched the depth pass,
\* the color pass and the fixup once each and in this order, preceded by the
\* clear when the caller asked for it.
C12_StagesInOrder ==
    (call.op = "scatter" /\ Returned /\ call.ret = LIBWARP_SUCCESS)
        => DispatchedKernels \in
               {<<KERNEL_SCATTER_DEPTH_PASS, KERNEL_SCATTER_COLOR_DEPTH_TEST,
                  KERNEL_SCATTER_FIXUP>>,
                <<KERNEL_SCATTER_CLEAR, KERNEL_SCATTER_DEPTH_PASS,
                  KERNEL_SCATTER_COLOR_DEPTH_TEST, KERNEL_SCATTER_FIXUP>>}

\* a scatter call returned success after the depth pass and the color pass
C12_ScatterWithoutFixup ==
    /\ call.op = "scatter" /\ Returned /\ call.ret = LIBWARP_SUCCESS
    /\ DispatchedKernels =
           <<KERNEL_SCATTER_DEPTH_PASS, KERNEL_SCATTER_COLOR_DEPTH_TEST>>

\* C13: once the color pass has completed, every output pixel that no source
\* pixel passing the depth test scattered to has the color and the validity
\* it had before the scatter call.
C13_UntouchedPixelsKept ==
    ColorPassCompleted
        => \A p \in Pixels :
              (\A id \in Scatterers(p) : ~PassesDepthTest(id))
                  => gpu.img_out_color[p] = PreviousOutput[p]

\* one output pixel took a write while another kept its earlier color, and
\* a source pixel failed the depth test
C13_HoleKeepsEarlierFrame ==
    /\ ColorPassCompleted
    /\ gpu.img_out_color[<<0, 0>>].w = 1
    /\ \E id \in Scatterers(<<0, 0>>) : ~PassesDepthTest(id)
    /\ gpu.img_out_color[<<1, 0>>] = PreviousOutput[<<1, 0>>]
    /\ PreviousOutput[<<1, 0>>].w = 1

\* the four neighbours the fixup reads for pixel p, as the image was before
\* the pass, and those of them that were written
NeighboursBefore(p) ==
    [i \in 1..4 |-> read_repeat_mirrored(gpu.img_before, p, NeighbourOffsets[i])]
WrittenBefore(p) == {i \in 1..4 : NeighboursBefore(p)[i].w >= 1}
RECURSIVE SumOver(_, _, _)
SumOver(colors, idx, k) ==
    IF idx = {} THEN 0
    ELSE LET i == CHOOSE j \in idx : TRUE
         IN colors[i].xyz[k] + SumOver(colors, idx \ {i}, k)
AverageOfWritten(p) ==
    [k \in 1..3 |-> SumOver(NeighboursBefore(p), WrittenBefore(p), k)
                        \div Cardinality(WrittenBefore(p))]

\* C14: once the fixup has completed, every pixel that was written before it
\* is unchanged, and every pixel that was not written and had a written
\* neighbour holds the unweighted average of the colors of its written
\* neighbours and is marked written.  Stated for the images in which every
\* pixel that is not written has a written neighbour.
C14_AverageOfWrittenNeighbours ==
    (/\ FixupCompleted
     /\ \A q \in Pixels : gpu.img_before[q].w >= 1 \/ WrittenBefore(q) # {})
        => \A p \in Pixels :
              IF gpu.img_before[p].w >= 1 THEN gpu.warp_img[p] = gpu.img_before[p]
              ELSE WrittenBefore(p) # {}
                      => gpu.warp_img[p] =
                             [xyz |-> AverageOfWritten(p), w |-> 1, nan |-> FALSE]

\* two holes side by side, each with a written neighbour below it, and the
\* second took the first one's interpolated color into its average
C14_HoleAveragedFromHole ==
    /\ FixupCompleted
    /\ gpu.img_before[<<0, 0>>].w = 0 /\ gpu.img_before[<<1, 0>>].w = 0
    /\ gpu.img_before[<<0, 1>>].w = 1 /\ gpu.img_before[<<1, 1>>].w = 1
    /\ gpu.warp_img[<<0, 0>>].xyz = WarpedColor(<<0, 1>>).xyz
    /\ gpu.warp_img[<<1, 0>>].xyz # WarpedColor(<<1, 1>>).xyz

\* C15: the fixup never writes a NaN color: no pixel of the image is NaN
\* while the pass runs or after it.
C15_NoNaNWritten ==
    gpu.phase = "fixup" => \A p \in Pixels : ~gpu.warp_img[p].nan

\* a pixel none of whose neighbours was written has been fixed up
C15_HoleWithoutWrittenNeighbour ==
    /\ gpu.phase = "fixup"
    /\ <<0, 0>> \in gpu.done
    /\ gpu.img_before[<<0, 0>>].w = 0
    /\ WrittenBefore(<<0, 0>>) = {}
    /\ gpu.warp_img[<<0, 0>>].nan

\* the terms of the gather decision for the samples of this dispatch
G == GatherTerms(gpu.samples)
BothValid == G.err_fwd < epsilon_1_sq /\ G.err_bwd < epsilon_1_sq
DepthsAgree == fabs(G.z_fwd - G.z_bwd) < epsilon_2
\* every pixel a work-item has written holds color c
AllWritten(c) ==
    \A p \in Pixels : p \in gpu.done => gpu.written[p] = <<c>>
SomeWritten == gpu.phase = "gather" /\ gpu.done \cap Pixels # {}

\* C16: with both branches valid and their linearized depths closer than the
\* depth epsilon, every pixel written holds the blended color of the forward
\* branch if its error is the lower one, of the backward branch if that one's
\* is, and one of the two blended colors if the errors are equal.
C16_LowerErrorBlended ==
    (gpu.phase = "gather" /\ BothValid /\ DepthsAgree)
        => /\ G.err_fwd < G.err_bwd => AllWritten(G.proj_color_fwd)
           /\ G.err_bwd < G.err_fwd => AllWritten(G.proj_color_bwd)
           /\ G.err_fwd = G.err_bwd
                 => AllWritten(G.proj_color_fwd) \/ AllWritten(G.proj_color_bwd)

\* both branches valid with agreeing depths, the backward error the lower, and
\* a pixel written
C16_BackwardBranchBlended ==
    /\ SomeWritten /\ BothValid /\ DepthsAgree
    /\ G.err_bwd < G.err_fwd
    /\ G.delta = 500
    /\ AllWritten(G.proj_color_bwd)

\* the depth of the other frame at the place the chosen branch's motion leads
\* to, linearized as the branch depths are
LinearOtherFwd ==
    linearize_depth(DEFAULT_DEPTH_TYPE, gpu.samples.img_depth_at_p_fwd_motion)
        + fmul(1000 - G.delta,
               linearize_depth("depth_type::z_div_w",
                               gpu.samples.motion_depth_backward_at_p_fwd_motion))
LinearOtherBwd ==
    linearize_depth(DEFAULT_DEPTH_TYPE, gpu.samples.img_depth_prev_at_p_bwd_motion)
        + fmul(G.delta,
               linearize_depth("depth_type::z_div_w",
                               gpu.samples.motion_depth_forward_at_p_bwd_motion))

\* C17: with both branches valid and their linearized depths at least the
\* depth epsilon apart, every pixel written holds a color of the branch of
\* smaller depth: its blended color if the other frame's linearized depth at
\* the motion-displaced place is within the epsilon of the branch depth, its
\* plain color otherwise.
C17_NearerBranchCorroborated ==
    (gpu.phase = "gather" /\ BothValid /\ ~DepthsAgree)
        => IF G.z_fwd < G.z_bwd
           THEN AllWritten(IF fabs(G.z_fwd - LinearOtherFwd) < epsilon_2
                           THEN G.proj_color_fwd ELSE G.color_fwd)
           ELSE AllWritten(IF fabs(G.z_bwd - LinearOtherBwd) < epsilon_2
                           THEN G.proj_color_bwd ELSE G.color_bwd)

\* the forward branch is the nearer one, the other frame shows a far surface
\* where its motion leads, and the pixel was written with the blended color
C17_FarSurfaceBlended ==
    /\ SomeWritten /\ BothValid /\ ~DepthsAgree
    /\ G.z_fwd < G.z_bwd
    /\ fabs(G.z_fwd - LinearOtherFwd) >= epsilon_2
    /\ AllWritten(G.proj_color_fwd)

\* C18: with exactly one branch valid every pixel written holds that branch's
\* plain color, whatever the depths; with neither valid it holds the plain
\* colors of the two branches interpolated by delta; with both valid it holds
\* a blended color of one branch when the depths agree and the blended or
\* the plain color of the branch of smaller depth otherwise; and once the
\* dispatch has completed every pixel of the screen was written exactly once.
C18_OneRulePerPixel ==
    gpu.phase = "gather"
        => /\ (G.fwd_valid /\ ~G.bwd_valid) => AllWritten(G.color_fwd)
           /\ (G.bwd_valid /\ ~G.fwd_valid) => AllWritten(G.color_bwd)
           /\ (~G.fwd_valid /\ ~G.bwd_valid)
                 => AllWritten(interpolated(G.color_fwd, G.color_bwd, G.delta))
           /\ (BothValid /\ DepthsAgree)
                 => AllWritten(G.proj_color_fwd) \/ AllWritten(G.proj_color_bwd)
           /\ (BothValid /\ ~DepthsAgree /\ G.z_fwd < G.z_bwd)
                 => AllWritten(G.proj_color_fwd) \/ AllWritten(G.color_fwd)
           /\ (BothValid /\ ~DepthsAgree /\ ~(G.z_fwd < G.z_bwd))
                 => AllWritten(G.proj_color_bwd) \/ AllWritten(G.color_bwd)
           /\ \A p \in Pixels : Len(gpu.written[p]) = IF p \in gpu.done THEN 1 ELSE 0

\* only the forward branch is valid, the depths are far apart, and the whole
\* screen was written with its plain color
C18_OnlyForwardValid ==
    /\ GatherCompleted
    /\ G.fwd_valid /\ ~G.bwd_valid
    /\ ~DepthsAgree
    /\ \A p \in Pixels : gpu.written[p] = <<G.color_fwd>>

(***************************************************************************)
(* Motion round trips.                                                     *)
(***************************************************************************)
Decoded3D == gpu.phase = "decoded" /\ gpu.kind = "3d"
Decoded2D == gpu.phase = "decoded" /\ gpu.kind = "2d"

\* 64 * log2(65) / levels in millionths: the width in motion units of one
\* level at the far end of the range, the widest there is
QuantizationStep(levels) == (64 * 6022368) \div levels

\* C19: a 3D motion of components within [-64, 64], encoded and decoded,
\* comes back on every axis within less than the quantization step of the
\* axis (the step of the 9 bit y axis is twice that of x and z), with the
\* sign of every non-zero component, and the zero vector comes back as the
\* zero vector exactly.
C19_Motion3DRoundTrip ==
    Decoded3D =>
        /\ \A i \in 1..3 :
              /\ Abs(gpu.decoded[i].abs - Abs(gpu.motion[i]))
                     < QuantizationStep(Levels3D[i])
              /\ gpu.motion[i] > 0 => gpu.decoded[i].sign = 1
              /\ gpu.motion[i] < 0 => gpu.decoded[i].sign = -1
        /\ QuantizationStep(Levels3D[2]) = 2 * QuantizationStep(Levels3D[1])
        /\ gpu.motion = <<0, 0, 0>> =>
              \A i \in 1..3 : gpu.decoded[i] = [sign |-> 1, abs |-> 0]

\* a vector of mixed signs came back whose y, in the last level of the
\* coarse axis, is off by more than the step of the fine axes
C19_MixedSignsDecoded ==
    /\ Decoded3D
    /\ gpu.motion = <<0 - range, range - 10000, 0 - 1000>>
    /\ gpu.decoded[1].sign = -1
    /\ gpu.decoded[3] = [sign |-> -1, abs |-> 0]
    /\ Abs(gpu.decoded[2].abs - gpu.motion[2]) > QuantizationStep(Levels3D[1])

\* C20 as stated: a 2D motion within [-1, 1], encoded and decoded, comes
\* back in each lane within less than one fixed-point step (1/32767) of
\* itself, with the sign of each component.
C20_Motion2DRoundTrip ==
    Decoded2D =>
        \A i \in 1..2 :
            /\ Abs(gpu.decoded[i] - gpu.motion[i]) < 2
            /\ gpu.motion[i] > 0 => gpu.decoded[i] > 0
            /\ gpu.motion[i] < 0 => gpu.decoded[i] < 0

\* C20: a 2D motion within [-1, 1], encoded and decoded, comes back in each
\* lane within less than one fixed-point step (1/32767) of half of itself;
\* no lane changes its sign, and a lane comes back as zero only when it was
\* less than one step in magnitude.
C20_Motion2DHalved ==
    Decoded2D =>
        \A i \in 1..2 :
            /\ Abs(2 * gpu.decoded[i] - gpu.motion[i]) < 2 * 2
            /\ gpu.motion[i] >= 0 => gpu.decoded[i] >= 0
            /\ gpu.motion[i] =< 0 => gpu.decoded[i] =< 0
            /\ gpu.decoded[i] = 0 => Abs(gpu.motion[i]) < 2

\* a motion of half the screen one way and a sub-step the other came back
C20_HalfScreenDecoded ==
    /\ Decoded2D
    /\ gpu.motion = <<32767, 0 - 1>>
    /\ gpu.decoded = <<16383, 0>>

(***************************************************************************)
(* Camera math.                                                            *)
(***************************************************************************)
Scattered == gpu.phase = "scattered"
\* the pixel was not moved: its motion is zero or delta is
Unmoved == Scattered /\ ~gpu.moved

\* C21 as stated: reprojecting the reconstructed position of a pixel gives
\* the pixel's coordinate within a tolerance (a hundredth of a pixel), with
\* either origin convention, and a pixel that is not moved scatters to its
\* own coordinate.
C21_RoundTripIsCoord ==
    Unmoved =>
        /\ \A i \in 1..2 : fabs(gpu.projected[i] - gpu.coord[i] * 1000) < 10
        /\ gpu.scattered = gpu.coord

\* C21: reprojecting the reconstructed position of a pixel gives the centre
\* of the pixel, its coordinate plus a half on both axes, within a tolerance
\* (a hundredth of a pixel), with either origin convention; converted to
\* unsigned integers this is the pixel's coordinate, so a pixel that is not
\* moved scatters to its own coordinate.
C21_RoundTripIsPixelCentre ==
    Unmoved =>
        /\ \A i \in 1..2 : fabs(gpu.projected[i] - (gpu.coord[i] * 1000 + 500)) < 10
        /\ gpu.scattered = gpu.coord

\* the far bottom right pixel came back with the origin at the top
C21_FarPixelCameBack ==
    /\ Unmoved
    /\ gpu.origin = "SCREEN_ORIGIN_LEFT_TOP"
    /\ gpu.coord = <<LIBWARP_SCREEN_WIDTH - 1, LIBWARP_SCREEN_HEIGHT - 1>>
    /\ gpu.linear_depth > 50 * 1000
    /\ gpu.delta = 1000
    /\ gpu.scattered = gpu.coord

(***************************************************************************)
(* Cleanup and reset.                                                      *)
(***************************************************************************)
\* what a cleanup leaves of the library state S: T
CleanedUp(S, T) ==
    /\ T.programs = <<>>
    /\ \A s \in ImageSlots : T.img[s] = NULL
    /\ T.depth_buffer = NULL
    /\ T.ctx = S.ctx
    /\ T.dev = S.dev
    /\ T.dev_queue = S.dev_queue
    /\ T.tile_size = S.tile_size

\* a step in which libwarp_cleanup runs
CleanupReleases ==
    (BodyStep /\ call'.op = "cleanup")
        => /\ call'.status = "ret"
           /\ did_init' = did_init
           /\ IF libwarp_state = NULL THEN libwarp_state' = NULL
              ELSE /\ libwarp_state' # NULL
                   /\ CleanedUp(Deref(libwarp_state), Deref(libwarp_state'))

\* the step after a cleanup, when it repeats the request that had succeeded
\* right before the cleanup, with nothing failing in the environment
RepeatsRequestAfterCleanup ==
    /\ BodyStep
    /\ call.op = "cleanup"
    /\ call.before.op \in BuildOps
    /\ call.before.ok
    /\ \E i \in 1..Len(call.cache_before) : call.cache_before[i].first = call.before.cs
    /\ call'.op = call.before.op
    /\ call'.cs = call.before.cs
    /\ call'.env = GoodEnv

\* C22: libwarp_cleanup returns with the cache empty and every image slot of
\* the scatter, forward gather and gather pipelines and the scatter depth
\* buffer null, and with the context, the device, the queue and the tile
\* size as they were; a request that had succeeded before the cleanup, made
\* again after it, compiles its configuration again and succeeds without
\* the initialisation running again.
C22_CleanupKeepsProcessState ==
    [][/\ CleanupReleases
       /\ RepeatsRequestAfterCleanup
             => /\ call'.status = "ret"
                /\ call'.ret = LIBWARP_SUCCESS
                /\ call'.compiles = 1
                /\ ~call'.init_ran
                /\ did_init'
                /\ Len(CacheOf(libwarp_state')) = 1]_vars

\* a cleanup that came after a successful scatter emptied the cache and the
\* slots and left the context, the device and the queue
C22_CleanedAfterScatter ==
    /\ call.op = "cleanup"
    /\ call.before.op = "scatter"
    /\ call.before.ok
    /\ Len(call.cache_before) = 1
    /\ libwarp_state # NULL
    /\ CleanedUp([InitLambda(GoodInit).st EXCEPT !.programs = call.cache_before],
                 Deref(libwarp_state))

(***************************************************************************)
(* C23: within one scatter call every work-item of the color pass runs     *)
(* after the fill of the depth buffer and after every work-item of the     *)
(* depth pass, so it reads the depths the whole depth pass left; and each  *)
(* dispatch returns to the host only when every work-item of its stage has *)
(* run.                                                                    *)
(***************************************************************************)
ColorTaskRuns == gpu'.color_done # gpu.color_done
C23_ColorPassAfterDepthPass ==
    [][/\ ColorTaskRuns =>
              /\ gpu.host # "fill"
              /\ gpu.depth_done = GlobalIds
              /\ gpu.depth_buffer = RunDepthPass(GpuIdle.depth_buffer, GlobalIds,
                                                 gpu.scattered)
       /\ (gpu.host = "depth_pass" /\ gpu'.host # "depth_pass")
              => gpu.depth_done = GlobalIds
       /\ (gpu.host = "color_pass" /\ gpu'.host # "color_pass")
              => gpu.color_done = GlobalIds]_vars

\* the color pass is half way through a frame in which a nearer and a
\* farther pixel scatter to one destination
C23_ColorPassUnderWay ==
    /\ gpu.host = "color_pass"
    /\ gpu.color_done # {} /\ gpu.color_done # GlobalIds
    /\ \E a, b \in InScreenIds :
          /\ Deref(gpu.scattered[a]) = [coord |-> <<0, 0>>, linear_depth |-> Plus1]
          /\ Deref(gpu.scattered[b]) = [coord |-> <<0, 0>>, linear_depth |-> Plus5]
          /\ b \in gpu.color_done
    /\ gpu.depth_buffer[0] = as_uint32(Plus1)

(***************************************************************************)
(* C24: in the fixup (one of the stages other than the scatter depth pass) *)
(* no work-item writes a pixel that another work-item reads or writes, and *)
(* so the image the completed stage leaves is the one that running its     *)
(* work-items one after the other in any one order leaves.                 *)
(***************************************************************************)
\* the pixels a fixup work-item reads and writes: its own pixel, and for a
\* pixel that was not written the four neighbours
FixupReads(id) ==
    IF screen_check(id) THEN {}
    ELSE {id} \cup
         (IF gpu.img_before[id].w >= 1 THEN {}
          ELSE {<<mirrored(id[1] + NeighbourOffsets[i][1], LIBWARP_SCREEN_WIDTH),
                  mirrored(id[2] + NeighbourOffsets[i][2], LIBWARP_SCREEN_HEIGHT)>> :
                   i \in 1..4})
FixupWrites(id) ==
    IF screen_check(id) \/ gpu.img_before[id].w >= 1 THEN {} ELSE {id}

\* the fixup run to completion, one work-item after the other
RECURSIVE RunFixup(_, _)
RunFixup(warp_img, ids) ==
    IF ids = {} THEN warp_img
    ELSE LET id == CHOOSE i \in ids : TRUE
         IN RunFixup(libwarp_single_px_fixup(warp_img, id), ids \ {id})

C24_NoCrossTaskCommunication ==
    /\ \A a, b \in GlobalIds :
          a # b => FixupWrites(a) \cap (FixupReads(b) \cup FixupWrites(b)) = {}
    /\ FixupCompleted => gpu.warp_img = RunFixup(gpu.img_before, GlobalIds)

\* a completed fixup whose image is not the one another order of the same
\* work-items gives
C24_OrderDecidedOutput ==
    /\ FixupCompleted
    /\ gpu.warp_img # RunFixup(gpu.img_before, GlobalIds)
    /\ \E a, b \in Pixels : a # b /\ a \in FixupWrites(a) /\ a \in FixupReads(b)

(***************************************************************************)
(* C25: a scatter, gather or forward-only gather whose kernel stage        *)
(* reported an error (all wraps, acquires and the depth buffer allocation  *)
(* having succeeded before it) still goes through its releases: when no    *)
(* release fails it returns with no texture left acquired and with the     *)
(* kernel stage's error code; and a scatter whose depth pass reported an   *)
(* error has dispatched no kernel, the color pass included.                *)
(***************************************************************************)
KernelStageFailed == call.berr # LIBWARP_SUCCESS
C25_ReleasedAfterKernelFailure ==
    (call.op \in WarpOps /\ Returned /\ KernelStageFailed)
        => /\ call.env.fail[1] # "release"
                  => call.held = {} /\ call.ret = call.berr
           /\ call.env.fail[1] = "release"
                  => call.ret = LIBWARP_IMAGE_RELEASE_FAILURE
           /\ call.dispatched = <<>>

\* a scatter found a kernel missing after its four acquires and returned
\* that with nothing left acquired
C25_ScatterReturnedNoKernel ==
    /\ call.op = "scatter"
    /\ Returned /\ call.ret = LIBWARP_NO_KERNEL
    /\ call.berr = LIBWARP_NO_KERNEL
    /\ call.env.build.absent # {}
    /\ call.held = {} /\ call.dispatched = <<>>

(***************************************************************************)
(* C26: once libwarp_reset has torn the process state down (the state is   *)
(* null and the initialisation has run before), every later prebuild,      *)
(* scatter, gather, forward-only gather or cleanup returns, either having  *)
(* re-created the state through the initialisation or, for the calls that  *)
(* return a code, with an error code; none dereferences the null state.    *)
(***************************************************************************)
TornDown == did_init /\ libwarp_state = NULL
C26_NoUseAfterReset ==
    [][(BodyStep /\ TornDown /\ call'.op # "reset")
          => /\ call'.status = "ret"
             /\ \/ call'.init_ran /\ libwarp_state' # NULL
                \/ call'.op \in BuildOps /\ call'.ret # LIBWARP_SUCCESS
                \/ call'.op = "cleanup"]_vars

\* a scatter called after a reset went on with the null state
C26_ScatterAfterReset ==
    /\ call.op = "scatter"
    /\ call.status = "crash"
    /\ ~call.init_ran
    /\ did_init /\ libwarp_state = NULL
    /\ call.cs = BaseSetup

(***************************************************************************)
(* C27: a build that compiled succeeds only when each of the               *)
(* warp_kernel_count() kernels of WARP_KERNEL was retrieved by its name,   *)
(* and reports LIBWARP_NO_KERNEL when one of them is missing; so every     *)
(* unit in the cache has a kernel in every slot and no dispatch is handed  *)
(* a null kernel.                                                          *)
(***************************************************************************)
BuiltNow == call.op \in BuildOps /\ call.compiles = 1 /\ call.env.build.compiles
C27_EveryKernelByName ==
    /\ (BuiltNow /\ Returned /\ call.berr = LIBWARP_SUCCESS)
          => /\ Len(call.lookups) = warp_kernel_count
             /\ \A i \in 1..Len(call.lookups) : call.lookups[i] # NULL
    /\ (BuiltNow /\ call.env.build.absent # {})
          => Returned /\ call.berr = LIBWARP_NO_KERNEL
    /\ libwarp_state # NULL
          => \A n \in 1..Len(CacheOf(libwarp_state)) :
                \A i \in 0..(warp_kernel_count - 1) :
                    CacheOf(libwarp_state)[n].second.kernels[i] # NULL
    /\ \A d \in 1..Len(call.dispatched) : call.dispatched[d].entry # NULL

\* a build succeeded whose seventh lookup was made with a null name
C27_LookupWithoutName ==
    /\ BuiltNow /\ Returned /\ call.berr = LIBWARP_SUCCESS
    /\ Len(call.lookups) = warp_kernel_count
    /\ call.lookups[KERNEL_DEBUG_DEPTH + 1] = NULL
    /\ Len(CacheOf(libwarp_state)) = 1

(***************************************************************************)
(* C28: in both gather kernels a branch whose final search position has a  *)
(* coordinate outside [0, 1] is not classified valid, whatever its squared *)
(* distance; a branch is classified valid exactly when the position is     *)
(* inside [0, 1] on both axes and the squared distance between the         *)
(* position advanced by the weighted motion and the initial position is    *)
(* below epsilon_1 squared.                                                *)
(***************************************************************************)
Classified == gpu.step = "classified"
InsideScreen(p) == \A k \in 1..2 : 0 <= p[k] /\ p[k] <= ScreenUnit
SquaredDistance ==
    LET w == IF gpu.branch = "fwd" THEN gpu.delta ELSE 1000 - gpu.delta
        c == pixel_center(gpu.coord)
        dx == gpu.p[1] + (w * gpu.motion[1]) \div 1000 - c[1]
        dy == gpu.p[2] + (w * gpu.motion[2]) \div 1000 - c[2]
    IN dx * dx + dy * dy
C28_ValidOnlyInsideScreen ==
    Classified
        => /\ ~InsideScreen(gpu.p) => ~gpu.valid
           /\ gpu.valid <=> (InsideScreen(gpu.p) /\ SquaredDistance < epsilon_1_sq)

\* the forward-only kernel's search ended one unit left of the screen, at a
\* squared distance below the threshold, and the branch was not taken as valid
C28_JustOutsideRejected ==
    /\ Classified
    /\ gpu.kernel = KERNEL_GATHER_FORWARD_ONLY
    /\ gpu.p[1] = 0 - 1
    /\ SquaredDistance < epsilon_1_sq
    /\ ~gpu.valid

(***************************************************************************)
(* C29: whichever kernel of the program is dispatched, a work-item of the  *)
(* rounded-up grid whose coordinate has x >= screen width or y >= screen   *)
(* height has read and written no image and no buffer.                     *)
(***************************************************************************)
BeyondScreen(id) == id[1] >= LIBWARP_SCREEN_WIDTH \/ id[2] >= LIBWARP_SCREEN_HEIGHT
C29_BeyondScreenTouchesNothing ==
    \A id \in gpu.done : BeyondScreen(id) => gpu.accesses[id] = {}

\* the depth debug kernel wrote its output at a coordinate right of the screen
C29_DebugKernelWroteBeyondScreen ==
    /\ gpu.kernel = KERNEL_DEBUG_DEPTH
    /\ <<LIBWARP_SCREEN_WIDTH, 0>> \in gpu.done
    /\ Access("write", "output", <<LIBWARP_SCREEN_WIDTH, 0>>)
           \in gpu.accesses[<<LIBWARP_SCREEN_WIDTH, 0>>]

(***************************************************************************)
(* C30: whatever the texture slots hold from earlier gather calls, the     *)
(* bidirectional kernel a gather call dispatches is handed, in the order   *)
(* of its parameters (current color and depth, previous color and depth,   *)
(* forward and backward motion, forward and backward motion depth,         *)
(* output), the textures the call was given in those roles.                *)
(***************************************************************************)
TexturesOf(args) == [i \in DOMAIN args |-> Deref(args[i]).gl_object]
InRoles(tex) ==
    <<tex.color_current, tex.depth_current, tex.color_prev, tex.depth_prev,
      tex.motion_forward, tex.motion_backward,
      tex.motion_depth_forward, tex.motion_depth_backward, tex.output>>
C30_KernelGetsSuppliedTextures ==
    (call.op = "gather" /\ call.dispatched # <<>>)
        => /\ Len(call.dispatched) = 1
           /\ call.dispatched[1].kernel = KERNEL_GATHER_BIDIRECTIONAL
           /\ \A i \in DOMAIN call.dispatched[1].args : call.dispatched[1].args[i] # NULL
           /\ TexturesOf(call.dispatched[1].args) = InRoles(Deref(call.tex))

\* a frame rendered into new textures was warped while the slots of both
\* image sets held the textures of earlier frames, of which some were wrapped
\* again and some kept
C30_NewFrameOverOldSlots ==
    /\ call.op = "gather" /\ Returned /\ call.ret = LIBWARP_SUCCESS
    /\ Deref(call.tex).color_current = 10
    /\ call.wraps \in 1..8
    /\ call.dispatched # <<>>
    /\ Deref(Deref(libwarp_state).img["gather.motion[0]"]).gl_object = 3
    /\ Deref(Deref(libwarp_state).img["gather.color[0]"]).gl_object = 1

(***************************************************************************)
(* C31: every entry point body that returns, with LIBWARP_SUCCESS or with  *)
(* any error code, leaves the mutex unlocked, and after a return a caller  *)
(* eventually holds the mutex again: a failed operation does not leave the *)
(* library blocked.                                                        *)
(***************************************************************************)
C31_LockReleasedOnEveryReturn ==
    /\ [][(BodyStep /\ call'.status = "ret") => libwarp_lock' = 0]_vars
    /\ (call.op # "none" /\ Returned /\ libwarp_lock = 0) ~> (libwarp_lock # 0)

\* a scatter returned an acquire failure and a caller holds the lock after it
C31_LockedAfterFailedScatter ==
    /\ call.op = "scatter"
    /\ Returned /\ call.ret = LIBWARP_IMAGE_ACQUIRE_FAILURE
    /\ libwarp_lock # 0
    /\ \E t \in Threads : pc[t] = "locked"

(***************************************************************************)
(* C32: an access to the depth buffer in the depth pass or the color pass  *)
(* is at the index y * width + x of a coordinate with x < width and        *)
(* y < height, so at an index below width * height, which the buffer's     *)
(* capacity covers; also for pixels that project to a negative or a very   *)
(* large coordinate.                                                       *)
(***************************************************************************)
Indexed == gpu.phase = "indexed"
C32_IndexInsideBuffer ==
    Indexed =>
        \A i \in gpu.index :
            /\ gpu.scattered[1] < LIBWARP_SCREEN_WIDTH
            /\ gpu.scattered[2] < LIBWARP_SCREEN_HEIGHT
            /\ i = gpu.scattered[2] * LIBWARP_SCREEN_WIDTH + gpu.scattered[1]
            /\ 0 <= i /\ i < LIBWARP_SCREEN_WIDTH * LIBWARP_SCREEN_HEIGHT
            /\ i < gpu.capacity

\* a pixel was carried off the screen to a negative y, the conversion of
\* which gave a value beyond the screen, and no cell was accessed though its
\* x is on the screen
C32_OffScreenNotIndexed ==
    /\ Indexed
    /\ gpu.projected[2] < 0
    /\ gpu.scattered[2] = HugeUint /\ gpu.scattered[1] < LIBWARP_SCREEN_WIDTH
    /\ gpu.index = {}
    /\ gpu.capacity = LIBWARP_SCREEN_WIDTH * LIBWARP_SCREEN_HEIGHT

\* the fill has completed and no work-item of the depth pass has run yet
DepthPassStarting == gpu.phase = "kernel" /\ gpu.done = {}
\* a linear depth the bit-pattern minimum orders as a float: not negative and
\* not above the clear value
OrderedDepth(d) == d.sign = 0 /\ ~float_less(clear_depth, d)

\* C33, as stated: at the start of every scatter depth pass every cell of the
\* depth buffer holds +infinity, which no source pixel's linear depth exceeds.
C33_CellsStartAtInfinity ==
    DepthPassStarting
        => \A c \in Cells :
              /\ gpu.depth_buffer[c] = as_uint32(PlusInfinity)
              /\ \A d \in LinearDepths : ~float_less(as_float(gpu.depth_buffer[c]), d)

\* C33, amended: at the start of every scatter depth pass every cell holds
\* the largest finite float, whatever the buffer held before, and while the
\* pass runs the cell of every in-bounds source pixel that has run and whose
\* linear depth is not negative and not above that value holds a depth that
\* is not greater than the pixel's.
C33_CellsStartAtLargestFinite ==
    /\ DepthPassStarting => \A c \in Cells : gpu.depth_buffer[c] = as_uint32(clear_depth)
    /\ gpu.phase = "kernel"
          => \A id \in gpu.done :
                (/\ gpu.scattered[id] # NULL
                 /\ InBounds(Deref(gpu.scattered[id]).coord)
                 /\ OrderedDepth(Deref(gpu.scattered[id]).linear_depth))
                    => ~float_less(Deref(gpu.scattered[id]).linear_depth,
                                   as_float(gpu.depth_buffer[
                                       CellOf(Deref(gpu.scattered[id]).coord)]))

\* the first work-item of a pass has run: its pixel of depth 5 lowered its
\* cell from the clear value, which every other cell still holds
C33_FirstPixelLowersCell ==
    /\ gpu.phase = "kernel"
    /\ \E id \in GlobalIds :
          /\ gpu.done = {id}
          /\ gpu.scattered[id] # NULL
          /\ Deref(gpu.scattered[id]).coord = <<1, 1>>
          /\ Deref(gpu.scattered[id]).linear_depth = Plus5
    /\ \A c \in Cells :
          gpu.depth_buffer[c] =
              IF c = CellOf(<<1, 1>>) THEN as_uint32(Plus5) ELSE as_uint32(clear_depth)

\* the position after n iterations of the forward search
RECURSIVE SearchedPosition(_)
SearchedPosition(n) ==
    IF n = 0 THEN gpu.p_init
    ELSE LET motion == gpu.img_motion[texel_of(SearchedPosition(n - 1))]
         IN <<gpu.p_init[1] - (gpu.delta * motion[1]) \div 1000,
              gpu.p_init[2] - (gpu.delta * motion[2]) \div 1000>>
ForwardReturned == gpu.phase = "forward" /\ gpu.step = "returned"

\* C34: the forward-only gather runs a fixed number of iterations, each of
\* which sets the position to the initial position minus delta times the
\* motion at the previous position; a work-item on the screen then writes
\* its pixel exactly once: the filtered sample at the final position when
\* the error there is strictly below the threshold, and otherwise the
\* half-sum of the directional blur along the final motion and the average
\* of the samples of the iterations.
C34_ForwardOnlyGather ==
    /\ gpu.phase = "forward"
          => /\ gpu.i <= gather_search_iterations
             /\ gpu.p_fwd = SearchedPosition(gpu.i)
             /\ Len(gpu.fallback_color) = gpu.i
             /\ \A k \in 1..gpu.i : gpu.fallback_color[k].at = SearchedPosition(k)
             /\ Len(gpu.written) = IF ForwardReturned /\ gpu.coord \in Pixels THEN 1 ELSE 0
    /\ (ForwardReturned /\ gpu.coord \in Pixels)
          => /\ gpu.i = 6
             /\ LET final == SearchedPosition(6)
                    motion == gpu.img_motion[texel_of(final)]
                    off == <<final[1] + (gpu.delta * motion[1]) \div 1000 - gpu.p_init[1],
                             final[2] + (gpu.delta * motion[2]) \div 1000 - gpu.p_init[2]>>
                    inside == final[1] >= 0 /\ final[2] >= 0
                                  /\ final[1] <= ScreenUnit /\ final[2] <= ScreenUnit
                    below == inside /\ off[1] * off[1] + off[2] * off[2] < 625
                IN IF below
                   THEN gpu.written[1].kind = "read_linear" /\ gpu.written[1].at = final
                   ELSE /\ gpu.written[1].kind = "(blur + fallback_color) * 0.5f"
                        /\ gpu.written[1].at = gpu.coord
                        /\ gpu.written[1].dir = normalized(motion)
                        /\ gpu.written[1].fallback_color = gpu.fallback_color

\* a pixel of the right column whose search swings between the two columns:
\* the error at the final position is far above the threshold and the pixel
\* holds the half-sum of the blur to the right and the six samples
C34_BlurredPixelWritten ==
    /\ ForwardReturned
    /\ gpu.coord = <<1, 0>>
    /\ gpu.delta = 1000
    /\ gpu.p_fwd = gpu.p_init
    /\ gpu.fallback_color[1].at[1] = 35000
    /\ gpu.err.dist > epsilon_1_sq
    /\ Len(gpu.written) = 1
    /\ gpu.written[1].kind = "(blur + fallback_color) * 0.5f"
    /\ gpu.written[1].dir.v = <<1000, 0>>

\* two camera setups that differ in the origin convention and in nothing else
DifferInOriginOnly(a, b) ==
    /\ a.is_screen_origin_top_left # b.is_screen_origin_top_left
    /\ [a EXCEPT !.is_screen_origin_top_left = b.is_screen_origin_top_left] = b
\* the options the unit of cache entry i was compiled with
OptionsOfEntry(i) == Deref(CacheOf(libwarp_state)[i].second.program)

\* C35: the options a unit is compiled with carry the origin convention of
\* its camera setup, so two cached units whose setups differ only in the
\* origin convention were compiled with different options.
C35_OriginSpecializesUnit ==
    \A i, j \in 1..Len(CacheOf(libwarp_state)) :
        DifferInOriginOnly(CacheOf(libwarp_state)[i].first,
                           CacheOf(libwarp_state)[j].first)
            => OptionsOfEntry(i) # OptionsOfEntry(j)

\* the cache holds the units of a top-left and of a bottom-left setup that
\* are otherwise equal, both compiled with the same options
C35_SameOptionsForBothOrigins ==
    /\ Len(CacheOf(libwarp_state)) = 2
    /\ CacheOf(libwarp_state)[1].first = BaseSetup
    /\ CacheOf(libwarp_state)[2].first = VariantOf("is_screen_origin_top_left")
    /\ OptionsOfEntry(1) = OptionsOfEntry(2)
    /\ OptionsOfEntry(1).options = BuildOptions(BaseSetup, DefaultTileSize)

GridDispatched == gpu.phase = "grid" /\ gpu.step = "dispatched"
\* the invocations of the grid that have the global id x on one axis
InvocationsAt(x, size) == {g \in 0..(size - 1) : g = x}

\* C36: per axis the global work size of a dispatch is the smallest multiple
\* of the tile size that is not below the screen dimension: every screen
\* pixel is the global id of exactly one invocation, the grid exceeds the
\* screen by less than one tile, and the local work size is the tile size
\* the unit was compiled with.
C36_GridIsScreenRoundedUpToTiles ==
    GridDispatched
        => \A axis \in {1, 2} :
              LET dim == IF axis = 1 THEN gpu.cs.screen_width ELSE gpu.cs.screen_height
                  tile == IF axis = 1 THEN gpu.unit.TILE_SIZE_X ELSE gpu.unit.TILE_SIZE_Y
                  size == gpu.global_work_size[axis]
              IN /\ size % tile = 0
                 /\ size >= dim
                 /\ \A k \in 0..3 : (k * tile >= dim) => size <= k * tile
                 /\ \A x \in 0..(dim - 1) : Cardinality(InvocationsAt(x, size)) = 1
                 /\ size - dim < tile
                 /\ gpu.local_work_size[axis] = tile

\* a 33x17 screen under 32x16 tiles: the grid is 64x32, two tiles each way
C36_ScreenJustOverOneTile ==
    /\ GridDispatched
    /\ gpu.cs.screen_width = 33 /\ gpu.cs.screen_height = 17
    /\ gpu.unit.TILE_SIZE_X = 32 /\ gpu.unit.TILE_SIZE_Y = 16
    /\ gpu.global_work_size = <<64, 32>>
    /\ gpu.local_work_size = <<32, 16>>

\* the scatter depth buffer of the library state st, and the floats it holds
DepthBufferOf(st) == IF st = NULL THEN NULL ELSE Deref(st).depth_buffer
Capacity(st) ==
    IF DepthBufferOf(st) = NULL THEN 0 ELSE Deref(DepthBufferOf(st)).size \div SizeofFloat
FloatsNeeded(cs) == cs.screen_width * cs.screen_height
ScatterStep == BodyStep /\ call'.op = "scatter"
\* what holds of every scatter call apart from the capacity it leaves
DepthBufferKeptUnlessTooSmall ==
    /\ (Capacity(libwarp_state') # Capacity(libwarp_state))
          => (DepthBufferOf(libwarp_state) = NULL
                 \/ Capacity(libwarp_state) < FloatsNeeded(call'.cs))
    /\ \A i \in 1..Len(call'.dispatched) :
          UsesDepthBuffer(call'.dispatched[i].kernel)
              => /\ call'.dispatched[i].depth_buffer # NULL
                 /\ Deref(call'.dispatched[i].depth_buffer).size
                        >= SizeofFloat * FloatsNeeded(call'.cs)
    /\ (call'.status = "ret" /\ call'.ret = LIBWARP_DEPTH_BUFFER_FAILURE)
          => call'.dispatched = <<>>
    /\ (call'.env.fail = <<"alloc", "scatter.depth_buffer">>
           /\ call'.status = "ret" /\ call'.ret # LIBWARP_DEPTH_BUFFER_FAILURE)
          => Capacity(libwarp_state') = Capacity(libwarp_state)

\* C37: a scatter call (re)allocates the depth buffer only when it
\* is absent or too small for the call's screen, never leaves it with less
\* capacity than it had, dispatches the depth and color passes with a buffer
\* of at least width*height floats, and a call whose allocation fails
\* returns LIBWARP_DEPTH_BUFFER_FAILURE and dispatches nothing.
C37_CapacityNeverDecreases ==
    [][ScatterStep
          => /\ DepthBufferKeptUnlessTooSmall
             /\ Capacity(libwarp_state') >= Capacity(libwarp_state)]_vars

\* a scatter call for the 2x2 screen found the buffer of two floats that the
\* call for the 2x1 screen had left, failed to allocate a larger one and left
\* the library without a depth buffer
C37_BufferLostOnFailedGrowth ==
    /\ call.op = "scatter" /\ Returned /\ call.ret = LIBWARP_DEPTH_BUFFER_FAILURE
    /\ call.cs = BaseSetup
    /\ call.dispatched = <<>>
    /\ Len(CacheOf(libwarp_state)) = 1
    /\ CacheOf(libwarp_state)[1].first = VariantOf("screen_height")
    /\ DepthBufferOf(libwarp_state) = NULL

\* the capacity the claim asks of the device for the larger tile
AdvertisesLargeTile(st) ==
    /\ Deref(st.dev).max_work_group_size >= 1024
    /\ Deref(st.dev).max_work_group_item_sizes[1] >= 32
    /\ Deref(st.dev).max_work_group_item_sizes[2] >= 32
    /\ Deref(st.ctx).compute_type # "HOST"

\* C38: once the library is initialised its tile size is 32x32 when the
\* device advertises at least 1024 work-items per group and at least 32 per
\* axis and the backend is not host compute, and 32x16 otherwise; every unit
\* in the cache was compiled with that tile size.
C38_LargeTileWhenDeviceCapable ==
    (libwarp_state # NULL /\ Deref(libwarp_state).dev_queue # NULL)
        => /\ Deref(libwarp_state).tile_size =
                  IF AdvertisesLargeTile(Deref(libwarp_state))
                  THEN LargeTileSize ELSE DefaultTileSize
           /\ \A i \in 1..Len(CacheOf(libwarp_state)) :
                 /\ OptionsOfEntry(i).options.TILE_SIZE_X = Deref(libwarp_state).tile_size[1]
                 /\ OptionsOfEntry(i).options.TILE_SIZE_Y = Deref(libwarp_state).tile_size[2]

\* a device with 2048 work-items per group and 1024 per axis under a backend
\* other than host compute: the state has the 32x16 tile and the two units
\* in the cache were compiled with it
C38_DefaultTileOnLargerDevice ==
    /\ libwarp_state # NULL
    /\ Deref(libwarp_state).dev # NULL
    /\ Deref(Deref(libwarp_state).dev).max_work_group_size = 2048
    /\ Deref(Deref(libwarp_state).dev).max_work_group_item_sizes = <<1024, 1024>>
    /\ Deref(Deref(libwarp_state).ctx).compute_type = "METAL"
    /\ Deref(libwarp_state).tile_size = DefaultTileSize
    /\ Len(CacheOf(libwarp_state)) = 2
    /\ \A i \in 1..2 : OptionsOfEntry(i).options.TILE_SIZE_Y = 16

\* bit k of the 32-bit word w, and bit k of a number
BitOfWord(w, k) ==
    IF k >= 29 THEN (w.signs \div (2 ^ (k - 29))) % 2 ELSE (w.bits \div (2 ^ k)) % 2
BitOf(n, k) == (n \div (2 ^ k)) % 2
\* the word came out of the encoder
FromEncoder == gpu.signs # <<0, 0, 0>>

\* C39: the encoder puts the signs of x, y and z into bits 31, 30 and 29 of
\* the word and the quantized magnitudes of x, y and z into bits 28..19,
\* 18..10 and 9..0; the decoder takes the same signs and magnitudes out of
\* the word; and the decoder has a result for every word, whether an encoder
\* produced it or not.
C39_PackedLayoutRoundTrips ==
    /\ (gpu.phase \in {"packed", "unpacked"} /\ FromEncoder)
          => /\ \A i \in 1..3 :
                   BitOfWord(gpu.encoded, 32 - i) = IF gpu.signs[i] < 0 THEN 1 ELSE 0
             /\ \A k \in 19..28 : BitOfWord(gpu.encoded, k) = BitOf(gpu.ui_cmotion[1], k - 19)
             /\ \A k \in 10..18 : BitOfWord(gpu.encoded, k) = BitOf(gpu.ui_cmotion[2], k - 10)
             /\ \A k \in 0..9 : BitOfWord(gpu.encoded, k) = BitOf(gpu.ui_cmotion[3], k)
    /\ (gpu.phase = "unpacked" /\ FromEncoder)
          => /\ gpu.unpacked.signs = gpu.signs
             /\ gpu.unpacked.shifted_motion = gpu.ui_cmotion
    /\ gpu.phase = "unpacked"
          => /\ gpu.unpacked.signs \in PackedSigns
             /\ gpu.unpacked.shifted_motion \in (0..1023) \X (0..511) \X (0..1023)
             /\ \A i \in 1..3 :
                   /\ gpu.decoded[i].sign = gpu.unpacked.signs[i]
                   /\ gpu.decoded[i].abs >= 0
                   /\ gpu.decoded[i].abs <= range + Micro

\* x and z negative and every magnitude at its maximum: the word is
\* 0xBFFFFFFF, and the decoder gets the signs and the magnitudes back
C39_FullMagnitudesUnpacked ==
    /\ gpu.phase = "unpacked"
    /\ gpu.signs = <<-1, 1, -1>>
    /\ gpu.ui_cmotion = <<1023, 511, 1023>>
    /\ gpu.encoded = [signs |-> 5, bits |-> 2 ^ 29 - 1]
    /\ gpu.unpacked = [signs |-> <<-1, 1, -1>>, shifted_motion |-> <<1023, 511, 1023>>]

====
